---- MODULE Spec2Model ----
(***************************************************************************)
(* Model of the P2P trading automation of itrader_backend.                 *)
(*                                                                         *)
(* Part I  - the database pipeline: MonitoringSystem (Gate discovery and   *)
(*           release scheduler), TransactionProcessor (queue worker),      *)
(*           P2PChatBot (order monitor and scripted chat) and              *)
(*           ReceiptProcessor (receipt validation and matching), all       *)
(*           working on the tables `transactions` and `receipts`.          *)
(* Part II - the in-memory pipeline: AutoTrader, TransactionManager,       *)
(*           ChatFlowManager and the admin commands.                       *)
(*                                                                         *)
(* NULL columns are 0 (ids, times) or "" (text).  Cyrillic chat words are  *)
(* transliterated: da, net, ne, podtverzhdayu, soglasen, otkaz, ...        *)
(***************************************************************************)
EXTENDS Integers, Sequences, FiniteSets, TLC

\* ---------------------------------------------------------------- bounds
MaxGateTx == 2
MaxRows == 1
MaxOrders == 2
MaxReceipts == 2
MaxTime == 2
MaxChatTime == 12
MaxPayouts == 2
MaxTm == 2
MaxWeeks == 2
MaxMessages == 8
MaxRetries == 2
MaxAccounts == 2
MaxAds == 3
MaxIterations == 2
MaxGateAccounts == 2
MaxCycles == 6
MaxCallers == 2
\* RateLimiter(max_requests=240, window_seconds=60), scaled down
max_requests == 2
window_seconds == 2
MaxThreads == 2
MaxClock == 8
\* GateClient.min_request_interval = 0.25, in ticks of the client's clock
min_request_interval == 2
MaxRestarts == 1
MaxAdminClients == 2
MaxCommandTx == 1
MaxReleases == 2
MaxChatLen == 2
MaxChatOrders == 2
MaxDetails == 2

\* ------------------------------------------------------ program constants
\* release_scheduled_at = CURRENT_TIMESTAMP + INTERVAL '2 minutes'
GraceMinutes == 2
\* datetime.now() - updated_at > timedelta(minutes=10)
ReceiptTimeoutMinutes == 10
\* cleanup_old_sessions(days=7): one week
SessionRetentionWeeks == 1

NULL == 0

GateIds == 1..MaxGateTx
OrderIds == 1..MaxOrders
RubAmounts == {0, 100}
ReceiptAmounts == {100, 101}

\* A text column is a sequence of one-character strings.
PhoneWallet == <<"7", "-", "1", "2">>
CardWallet == <<"3", "4", "5">>
Wallets == {PhoneWallet, CardWallet}
NoText == <<>>

\* ------------------------------------------------------------- sequences
RECURSIVE SeqsUpTo(_, _)
SeqsUpTo(S, n) ==
    IF n = 0 THEN {<<>>}
    ELSE LET shorter == SeqsUpTo(S, n - 1)
         IN  shorter \cup {Append(s, x) : s \in {t \in shorter : Len(t) = n - 1}, x \in S}

Range(s) == {s[i] : i \in 1..Len(s)}

\* the orders in which the elements of a finite set can be listed
Perms(S) == {s \in SeqsUpTo(S, Cardinality(S)) : Len(s) = Cardinality(S) /\ Range(s) = S}

\* Python `a in b` on strings: a occurs in b as a contiguous run
IsSubstr(a, b) ==
    \E i \in 0..(Len(b) - Len(a)) : \A k \in 1..Len(a) : b[i + k] = a[k]

\* ================================================================ state
VARIABLES
    transactions,      \* table transactions: row id = index
    receipts,          \* table receipts: row id = index
    processing_queue,  \* TransactionProcessor.processing_queue
    monitored_ads,     \* P2PChatBot.monitored_ads: set of <<ad_id, transaction_id>>
    matcher,           \* ReceiptProcessor.match_receipt_to_transaction in progress
    now,               \* CURRENT_TIMESTAMP, in minutes
    addToQueueCalls,   \* history: number of add_to_queue calls per Gate transaction id
    observed,          \* history: was each Gate id handed to process_gate_transaction never, once or again
    chatLog,           \* table chat_messages: <<transaction_id, kind>> of every logged message
    manager_transactions, \* TransactionManager.transactions: the uuid of a transaction is its index
    createdFor,        \* history: the Gate id for which each Transaction was created
    sessions,          \* ChatFlowManager.sessions, by transaction uuid
    saved_sessions,    \* the files chat_<uuid>.json written by _save_session
    sentMessages,      \* history: <<uuid, kind>> of every message produced for a buyer
    payment_alternator, \* ChatFlowManager.payment_alternator; only its parity is ever read
    confirmedOrder,    \* history: the uuids whose buyer confirmed the SBP warning, in that order
    week,              \* datetime.now() of the in-memory pipeline, in weeks
    in_progress,       \* the transaction id each process_queue thread took off the queue
    online_ads,        \* the online ads (status 10) of each Bybit account, oldest first
    ready_transactions, \* release_scheduler: the rows of its SELECT it has not yet handled
    loops,             \* each periodic loop: whether its thread still runs, and its turns
    all_transactions,  \* monitor_transactions: what get_all_pending_transactions listed last
    gate_accounts,     \* AccountManager.gate_accounts: status and last_login of each account
    relogin_clock,     \* datetime.now() in re-login intervals; 0 before AutoTrader.start
    requests,          \* RateLimiter.requests: the age in seconds of each recorded request
    lock,              \* RateLimiter.lock: the caller that holds it, NULL if free
    callers,           \* where each caller of GateClient._request stands
    client_clock,      \* time.time() of the Gate client, in halves of min_request_interval
    last_request_time, \* GateClient.last_request_time of the one account's client
    threads,           \* where each executor thread stands in GateClient._make_request
    previous_start,    \* history: when the client's last request was started, NULL for none
    restarts,          \* history: how often the process was stopped and started again
    assets_released,   \* history: how often release_assets released the funds of each order
    admin_clients,     \* WebSocketAdminServer.clients, with what each websocket was sent
    broadcasts,        \* history: the events broadcast_event was called with
    order_chat,        \* the chat of the order bound to the row, as Bybit stores it
    fed_upto,          \* history: the last buyer message a response handler has read
    active_chats,      \* ChatManager.active_chats: per order, whether the buyer agreed
    orders_with_shown_payment, \* ChatManager.orders_with_shown_payment
    details_messages,  \* history: the payment details messages sent to each order
    chat_tasks         \* where each task stands in ChatManager.send_payment_details

dbVars == <<transactions, receipts, processing_queue, monitored_ads, matcher, now,
            addToQueueCalls, observed, chatLog>>

memVars == <<manager_transactions, createdFor, sessions, saved_sessions, sentMessages,
             payment_alternator, confirmedOrder, week>>

\* the local state of the periodic loops
\* the state of the Gate accounts and of their clients
limiterVars == <<requests, lock, callers>>
throttleVars == <<client_clock, last_request_time, threads, previous_start>>

\* the state of the parts modelled last
processVars == <<restarts, assets_released>>
adminVars == <<admin_clients, broadcasts>>
chatVars == <<order_chat, fed_upto>>
managerVars == <<active_chats, orders_with_shown_payment, details_messages, chat_tasks>>
lastVars == <<chatVars, managerVars>>
lateVars == <<throttleVars, processVars, adminVars, lastVars>>

\* what a cycle of AutoTrader.monitor_transactions leaves alone outside the
\* transaction manager, the chat flow and the admin server
notMonitorVars == <<dbVars, in_progress, online_ads, ready_transactions, loops,
                    gate_accounts, relogin_clock, limiterVars, throttleVars, processVars,
                    lastVars>>
clientVars == <<gate_accounts, relogin_clock, limiterVars, lateVars>>

opsVars == <<ready_transactions, loops, all_transactions, clientVars>>

\* the state neither pipeline's handlers touch as a whole
restVars == <<in_progress, online_ads, opsVars>>

vars == <<transactions, receipts, processing_queue, monitored_ads, matcher, now,
          addToQueueCalls, observed, chatLog, manager_transactions, createdFor, sessions,
          saved_sessions, sentMessages, payment_alternator, confirmedOrder, week,
          in_progress, online_ads, ready_transactions, loops, all_transactions,
          gate_accounts, relogin_clock, requests, lock, callers, client_clock,
          last_request_time, threads, previous_start, restarts, assets_released, admin_clients,
          broadcasts, order_chat, fed_upto, active_chats, orders_with_shown_payment,
          details_messages, chat_tasks>>

\* MonitoringSystem.start starts one thread that runs process_queue
NumWorkers == 1
Workers == 1..NumWorkers

TxIds == 1..Len(transactions)
ReceiptIds == 1..Len(receipts)

\* ============================================================ Gate discovery
\* payouts as the Gate API lists them
Payouts == [id : GateIds, rub : RubAmounts, wallet : Wallets]

\* GateClient.get_available_transactions keeps the payouts with a RUB amount
GetPendingTransactions(payouts) == SelectSeq(payouts, LAMBDA p : p.rub > 0)

\* process_gate_transaction without its look-up of the Gate id
TxExistsNever(txs, gate_tx_id) == FALSE

\* SELECT id FROM transactions WHERE gate_transaction_id = %s
TxExists(txs, gate_tx_id) ==
    \E i \in 1..Len(txs) : txs[i].gate_transaction_id = gate_tx_id

NewRow(tx) ==
    [gate_transaction_id |-> tx.id, status |-> "pending", amount_rub |-> tx.rub,
     wallet |-> tx.wallet, bybit_account_id |-> NULL, bybit_ad_id |-> NULL,
     bybit_order_id |-> NULL, chat_stage |-> "", receipt_id |-> NULL,
     updated_at |-> NULL, approved_at |-> NULL, release_scheduled_at |-> NULL,
     released_at |-> NULL,
     requisites_at |-> NULL, checked_at |-> NULL]

\* process_gate_transaction handing an existing row to the queue again
ProcessGateTransactionRequeue(st, tx) ==
    LET seen == [st EXCEPT !.seen[tx.id] = IF @ = "never" THEN "once" ELSE "again"]
        row == CHOOSE i \in 1..Len(st.txs) : st.txs[i].gate_transaction_id = tx.id
    IN  IF tx.rub <= 0 THEN seen
        ELSE IF TxExists(st.txs, tx.id) THEN [seen EXCEPT !.queue = Append(@, row)]
        ELSE [seen EXCEPT !.txs = Append(@, NewRow(tx)),
                          !.queue = Append(@, Len(st.txs) + 1),
                          !.calls[tx.id] = @ + 1]

\* MonitoringSystem.process_gate_transaction on st = [txs, queue, calls, seen]
ProcessGateTransactionOn(st, tx) ==
    LET seen == [st EXCEPT !.seen[tx.id] = IF @ = "never" THEN "once" ELSE "again"]
    IN  IF tx.rub <= 0 THEN seen
        ELSE IF TxExists(st.txs, tx.id) THEN seen
        ELSE [seen EXCEPT !.txs = Append(@, NewRow(tx)),
                          !.queue = Append(@, Len(st.txs) + 1),
                          !.calls[tx.id] = @ + 1]

RECURSIVE ProcessAll(_, _)
ProcessAll(st, pending) ==
    IF pending = <<>> THEN st
    ELSE ProcessAll(ProcessGateTransactionOn(st, Head(pending)), Tail(pending))

\* MonitoringSystem.check_gate_transactions: one poll of one Gate account
CheckGateTransactions(payouts) ==
    LET st0 == [txs |-> transactions, queue |-> processing_queue,
                calls |-> addToQueueCalls, seen |-> observed]
        st1 == ProcessAll(st0, GetPendingTransactions(payouts))
    IN  /\ transactions' = st1.txs
        /\ processing_queue' = st1.queue
        /\ addToQueueCalls' = st1.calls
        /\ observed' = st1.seen
        /\ UNCHANGED <<receipts, monitored_ads, matcher, now, chatLog>>
    /\ UNCHANGED <<memVars, restVars>>

\* ============================================================ queue worker
SetStatus(txs, id, status, t) ==
    [txs EXCEPT ![id].status = status, ![id].updated_at = t]

\* TransactionProcessor.process_transaction for transaction id;
\* outcome is what Bybit answers: no account free, ad refused, ad created
ProcessTransactionOn(id, outcome) ==
    LET processing == SetStatus(transactions, id, "processing", now)
    IN  IF outcome = "ad_created"
        THEN /\ transactions' = [processing EXCEPT ![id].bybit_account_id = 1,
                                                   ![id].bybit_ad_id = id,
                                                   ![id].status = "waiting_response"]
             /\ monitored_ads' = monitored_ads \cup {<<id, id>>}
        ELSE /\ transactions' = SetStatus(processing, id, "error", now)
             /\ UNCHANGED monitored_ads

\* one turn of the loop of process_queue: get and process_transaction
ProcessTransaction(outcome) ==
    /\ processing_queue # <<>>
    /\ processing_queue' = Tail(processing_queue)
    /\ ProcessTransactionOn(Head(processing_queue), outcome)
    /\ UNCHANGED <<receipts, matcher, now, addToQueueCalls, observed, chatLog>>
    /\ UNCHANGED <<memVars, restVars>>

\* the same turn in its two steps, for thread w: processing_queue.get ...
ProcessQueueGet(w) ==
    /\ in_progress[w] = NULL
    /\ processing_queue # <<>>
    /\ processing_queue' = Tail(processing_queue)
    /\ in_progress' = [in_progress EXCEPT ![w] = Head(processing_queue)]
    /\ UNCHANGED <<transactions, receipts, monitored_ads, matcher, now, addToQueueCalls,
                   observed, chatLog, online_ads>>
    /\ UNCHANGED <<memVars, opsVars>>

\* ... and process_transaction(transaction_id)
ProcessQueueRun(w, outcome) ==
    /\ in_progress[w] # NULL
    /\ ProcessTransactionOn(in_progress[w], outcome)
    /\ in_progress' = [in_progress EXCEPT ![w] = NULL]
    /\ UNCHANGED <<receipts, processing_queue, matcher, now, addToQueueCalls, observed,
                   chatLog, online_ads>>
    /\ UNCHANGED <<memVars, opsVars>>

\* ================================================================ chat bot
\* A chat text is the sequence of its words; a pattern \bw1 w2\b (and a plain
\* pattern "w1 w2") is found by re.search when its words occur in a row.
\* The patterns \b\+\b, \b\-\b and the mixed-alphabet spelling of "da" need
\* characters that no text of Texts contains.
YES_PATTERNS == {<<"da">>, <<"yes">>, <<"konechno">>, <<"soglasen">>, <<"ok">>, <<"okey">>}
NO_PATTERNS == {<<"net">>, <<"no">>, <<"ne">>, <<"otkaz">>, <<"ne", "soglasen">>}
CONFIRM_PATTERNS == {<<"podtverzhdayu">>, <<"confirm">>, <<"prinimayu">>, <<"soglasen">>, <<"ok">>}
KYC_DENY_PATTERNS == {<<"ne", "podtverzhdayu">>, <<"ne", "soglasen">>, <<"otkaz">>}

Texts == {<<"da">>, <<"net">>, <<"podtverzhdayu">>, <<"ne", "podtverzhdayu">>,
          <<"ne", "soglasen">>, <<"otkaz">>, <<"privet">>}

\* P2PChatBot._matches_patterns
MatchesPatterns(text, patterns) == \E p \in patterns : IsSubstr(p, text)

\* chat messages as P2POrderManager.get_chat_messages returns them
UserMsgTypes == {1, 2, 7, 8}
ChatMessages ==
    {[msgType |-> 1, message |-> t, contentType |-> "str"] : t \in Texts}
    \cup {[msgType |-> 0, message |-> NoText, contentType |-> "str"],
          [msgType |-> 1, message |-> NoText, contentType |-> "pdf"]}

\* P2PChatBot._get_latest_user_message: 0 when there is none, else its index
LatestUserIndex(messages) ==
    LET user == {i \in 1..Len(messages) : messages[i].msgType \in UserMsgTypes}
    IN  IF user = {} THEN 0 ELSE CHOOSE i \in user : \A j \in user : j <= i

\* P2PChatBot._update_chat_stage on st = [txs, mon, log]
UpdateChatStage(st, id, stage, t) ==
    [st EXCEPT !.txs[id].chat_stage = stage, !.txs[id].updated_at = t]

\* P2PChatBot._log_message
LogMessage(st, id, kind) == [st EXCEPT !.log = @ \cup {<<id, kind>>}]

\* P2PChatBot._move_to_fool_pool
MoveToFoolPool(st, id, t) ==
    LET ads == {m \in st.mon : m[2] = id}
        gone == IF ads = {} THEN {} ELSE {CHOOSE m \in ads : \A o \in ads : m[1] <= o[1]}
    IN  [st EXCEPT !.txs[id].status = "fool_pool", !.txs[id].updated_at = t,
                   !.mon = @ \ gone]

\* P2PChatBot._send_greeting
SendGreeting(st, id, sendOk, t) ==
    IF sendOk THEN LogMessage(UpdateChatStage(st, id, "bank_confirm", t), id, "greeting")
    ELSE st

\* P2PChatBot._check_bank_response and _check_receipt_response: a yes/no
\* question whose yes sends `question` and moves to `next`
CheckYesNoResponse(st, id, messages, sendOk, t, next, question) ==
    LET i == LatestUserIndex(messages)
    IN  IF i = 0 THEN st
        ELSE IF MatchesPatterns(messages[i].message, YES_PATTERNS)
             THEN IF sendOk THEN LogMessage(UpdateChatStage(st, id, next, t), id, question)
                  ELSE st
        ELSE IF MatchesPatterns(messages[i].message, NO_PATTERNS)
             THEN MoveToFoolPool(st, id, t)
        ELSE st

\* P2PChatBot._check_kyc_response
CheckKycResponse(st, id, messages, t) ==
    LET i == LatestUserIndex(messages)
    IN  IF i = 0 THEN st
        ELSE IF MatchesPatterns(messages[i].message, CONFIRM_PATTERNS)
             THEN UpdateChatStage(st, id, "reqs_sent", t)
        ELSE IF MatchesPatterns(messages[i].message, KYC_DENY_PATTERNS)
             THEN MoveToFoolPool(st, id, t)
        ELSE st

\* _send_requisites without its UPDATE of updated_at, the stage written without a time
SendRequisitesKeepTime(st, id, sendOk, t) ==
    IF sendOk
    THEN LogMessage([st EXCEPT !.txs[id].chat_stage = "waiting_receipt",
                               !.txs[id].requisites_at = t], id, "requisites")
    ELSE st

\* P2PChatBot._send_requisites; requisites_at is history, the time at which the
\* requisites message was sent (chat_messages keeps it for the logged message)
SendRequisites(st, id, sendOk, t) ==
    IF sendOk
    THEN LogMessage([UpdateChatStage(st, id, "waiting_receipt", t) EXCEPT
                         !.txs[id].requisites_at = t], id, "requisites")
    ELSE st

\* P2PChatBot._check_for_receipt
CheckForReceipt(st, id, messages, t) ==
    LET last5 == {i \in 1..Len(messages) : i > Len(messages) - 5}
    IN  IF \E i \in last5 : messages[i].contentType = "pdf" THEN st
        ELSE IF t - st.txs[id].updated_at > ReceiptTimeoutMinutes
             THEN MoveToFoolPool(st, id, t)
        ELSE st

\* P2PChatBot._handle_order_chat: dispatch on the stored chat stage
HandleOrderChat(st, id, messages, sendOk, t) ==
    LET stage == st.txs[id].chat_stage
    IN  CASE stage = "greeting" -> SendGreeting(st, id, sendOk, t)
          [] stage = "bank_confirm" ->
                CheckYesNoResponse(st, id, messages, sendOk, t, "receipt_confirm", "pdf_question")
          [] stage = "receipt_confirm" ->
                CheckYesNoResponse(st, id, messages, sendOk, t, "kyc_confirm", "kyc_question")
          [] stage = "kyc_confirm" -> CheckKycResponse(st, id, messages, t)
          [] stage = "reqs_sent" -> SendRequisites(st, id, sendOk, t)
          [] stage = "waiting_receipt" -> CheckForReceipt(st, id, messages, t)
          [] OTHER -> st

\* the loop of P2PChatBot._check_ad_orders over the orders Bybit lists;
\* current is the order id read before the loop
RECURSIVE CheckOrders(_, _, _, _, _, _, _)
CheckOrders(st, id, current, orders, messages, sendOk, t) ==
    IF orders = <<>> THEN st
    ELSE LET order_id == Head(orders)
             bound == [st EXCEPT !.txs[id].bybit_order_id = order_id,
                                 !.txs[id].status = "waiting_payment",
                                 !.txs[id].chat_stage = "greeting"]
             next == IF order_id # current
                     THEN HandleOrderChat(bound, id, messages, Head(sendOk), t)
                     ELSE st
         IN  CheckOrders(next, id, current, Tail(orders), messages, Tail(sendOk), t)

\* the order lists get_orders(status=20) can return
OrderLists == {s \in SeqsUpTo(OrderIds, MaxOrders) : \A i, j \in 1..Len(s) : i # j => s[i] # s[j]}
PolledMessages == SeqsUpTo(ChatMessages, 1)

\* P2PChatBot._check_ad_orders for one monitored ad; checked_at is history, the
\* time at which the last cycle for the row started
CheckAdOrders(ad, orders, messages, sendOk) ==
    /\ ad \in monitored_ads
    /\ LET id == ad[2]
           st0 == [txs |-> [transactions EXCEPT ![id].checked_at = now],
                   mon |-> monitored_ads, log |-> chatLog]
           st1 == CheckOrders(st0, id, transactions[id].bybit_order_id, orders,
                              messages, sendOk, now)
       IN  /\ transactions[id].bybit_account_id # NULL
           /\ transactions' = st1.txs
           /\ monitored_ads' = st1.mon
           /\ chatLog' = st1.log
    /\ UNCHANGED <<receipts, processing_queue, matcher, now, addToQueueCalls, observed>>
    /\ UNCHANGED <<memVars, restVars>>

\* ================================================================ receipts
ReceiptPhone == <<"7", "1", "2">>
ReceiptCards == {<<"4", "5">>, <<"3", "4">>}

\* what extract_text_from_pdf and parse_receipt_text get out of a PDF
ReceiptData ==
    [status : {"success", ""}, amount : ReceiptAmounts \cup {NULL},
     phone : {ReceiptPhone, NoText}, card_last4 : ReceiptCards \cup {NoText},
     bank : {"T-Bank", ""}]

\* the receipts the e-mail monitor delivers in the pipeline: complete ones
\* with one contact field, and ones without an amount
MailedReceipts ==
    {d \in ReceiptData : /\ d.status = "success" /\ d.bank = "T-Bank"
                         /\ (d.phone = NoText) # (d.card_last4 = NoText)
                         /\ (d.amount = NULL => d.phone # NoText)}

\* MonitoringSystem.save_receipt: INSERT INTO receipts
SaveReceipt(d) ==
    /\ Len(receipts) < MaxReceipts
    /\ receipts' = Append(receipts, [data |-> d, processed |-> FALSE,
                                     is_valid |-> FALSE, transaction_id |-> NULL])
    /\ UNCHANGED <<transactions, processing_queue, monitored_ads, matcher, now,
                   addToQueueCalls, observed, chatLog>>
    /\ UNCHANGED <<memVars, restVars>>

\* validate_receipt accepting every receipt
ValidateReceiptAlways(d) == TRUE

\* ReceiptProcessor.validate_receipt
ValidateReceipt(d) ==
    /\ d.status = "success"
    /\ d.amount # NULL
    /\ ~(d.phone = NoText /\ d.card_last4 = NoText)
    /\ d.bank = "T-Bank"

\* SELECT id, wallet, amount_rub FROM transactions WHERE status IN (...) AND amount_rub = %s
Candidates(txs, amount) ==
    {i \in 1..Len(txs) : /\ txs[i].status \in {"waiting_receipt", "waiting_payment"}
                         /\ txs[i].amount_rub = amount}

\* re.sub(r'[\s\-\(\)]', '', wallet)
CleanWallet(wallet) == SelectSeq(wallet, LAMBDA c : c \notin {" ", "-", "(", ")"})

\* the test of one candidate in match_receipt_to_transaction
ContactMatches(wallet, d) ==
    \/ d.phone # NoText /\ IsSubstr(d.phone, CleanWallet(wallet))
    \/ d.card_last4 # NoText /\ IsSubstr(d.card_last4, wallet)

\* the loop over the candidates: the first one that matches, else NULL
RECURSIVE FirstMatch(_, _, _)
FirstMatch(txs, candidates, d) ==
    IF candidates = <<>> THEN NULL
    ELSE IF ContactMatches(txs[Head(candidates)].wallet, d) THEN Head(candidates)
    ELSE FirstMatch(txs, Tail(candidates), d)

MatcherIdle == [pc |-> "idle", receipt_id |-> NULL, candidates |-> <<>>]

\* ReceiptProcessor.process_receipt up to the SELECT of match_receipt_to_transaction;
\* the SELECT has no ORDER BY, so the rows come back in some order
ProcessReceipt(receipt_id, order) ==
    /\ matcher.pc = "idle"
    /\ receipt_id \in ReceiptIds
    /\ ~receipts[receipt_id].processed
    /\ LET d == receipts[receipt_id].data
           is_valid == ValidateReceipt(d)
       IN  /\ receipts' = [receipts EXCEPT ![receipt_id].processed = TRUE,
                                           ![receipt_id].is_valid = is_valid]
           /\ IF is_valid
              THEN /\ order \in Perms(Candidates(transactions, d.amount))
                   /\ matcher' = [pc |-> "matching", receipt_id |-> receipt_id,
                                  candidates |-> order]
              ELSE /\ order = <<>>
                   /\ UNCHANGED matcher
    /\ UNCHANGED <<transactions, processing_queue, monitored_ads, now,
                   addToQueueCalls, observed, chatLog>>
    /\ UNCHANGED <<memVars, restVars>>

\* match_receipt_to_transaction from the loop over the candidates to the commit
MatchReceiptToTransaction ==
    /\ matcher.pc = "matching"
    /\ LET receipt_id == matcher.receipt_id
           matched == FirstMatch(transactions, matcher.candidates, receipts[receipt_id].data)
       IN  IF matched # NULL
           THEN /\ transactions' =
                       [transactions EXCEPT ![matched].receipt_id = receipt_id,
                                            ![matched].status = "approved",
                                            ![matched].approved_at = now,
                                            ![matched].release_scheduled_at = now + GraceMinutes]
                /\ receipts' = [receipts EXCEPT ![receipt_id].transaction_id = matched]
           ELSE UNCHANGED <<transactions, receipts>>
    /\ matcher' = MatcherIdle
    /\ UNCHANGED <<processing_queue, monitored_ads, now, addToQueueCalls, observed, chatLog>>
    /\ UNCHANGED <<memVars, restVars>>

\* ========================================================= release scheduler
\* SELECT ... WHERE status = 'approved' AND release_scheduled_at <= CURRENT_TIMESTAMP
\*            AND released_at IS NULL
ReadyForRelease(txs, t) ==
    {i \in 1..Len(txs) : /\ txs[i].status = "approved"
                         /\ txs[i].release_scheduled_at <= t
                         /\ txs[i].released_at = NULL}

\* one iteration of MonitoringSystem.release_scheduler for one ready row:
\* TransactionProcessor.release_funds, success is what release_assets answers
ReleaseFunds(id, success) ==
    /\ id \in ReadyForRelease(transactions, now)
    /\ transactions[id].bybit_order_id # NULL
    /\ IF success
       THEN transactions' = [transactions EXCEPT ![id].status = "released",
                                                 ![id].released_at = now]
       ELSE UNCHANGED transactions
    /\ UNCHANGED <<receipts, processing_queue, monitored_ads, matcher, now,
                   addToQueueCalls, observed, chatLog>>
    /\ UNCHANGED <<memVars, restVars>>

\* release_scheduler, the SELECT of one iteration: the ready rows with their
\* bybit_order_id, in the order the database returns them
ReleaseSchedulerSelect(order) ==
    /\ ready_transactions = <<>>
    /\ order \in Perms(ReadyForRelease(transactions, now))
    /\ order # <<>>
    /\ ready_transactions' = [i \in 1..Len(order) |->
                                 <<order[i], transactions[order[i]].bybit_order_id>>]
    /\ UNCHANGED <<dbVars, memVars, in_progress, online_ads, loops, all_transactions,
                   clientVars>>

\* TransactionProcessor.release_funds(transaction_id, order_id): the UPDATE
\* after release_assets answered success
ReleaseFundsOn(txs, id, success, t) ==
    IF success /\ txs[id].bybit_account_id # NULL
    THEN [txs EXCEPT ![id].status = "released", ![id].released_at = t]
    ELSE txs

\* release_scheduler, one turn of the loop over ready_transactions
ReleaseSchedulerCall(success) ==
    /\ ready_transactions # <<>>
    /\ LET tx_id == Head(ready_transactions)[1]
           order_id == Head(ready_transactions)[2]
       IN  transactions' = IF order_id # NULL
                           THEN ReleaseFundsOn(transactions, tx_id, success, now)
                           ELSE transactions
    /\ ready_transactions' = Tail(ready_transactions)
    /\ UNCHANGED <<receipts, processing_queue, monitored_ads, matcher, now,
                   addToQueueCalls, observed, chatLog>>
    /\ UNCHANGED <<memVars, in_progress, online_ads, loops, all_transactions, clientVars>>

\* time passes
Tick ==
    /\ now < MaxTime
    /\ now' = now + 1
    /\ UNCHANGED <<transactions, receipts, processing_queue, monitored_ads, matcher,
                   addToQueueCalls, observed, chatLog>>
    /\ UNCHANGED <<memVars, restVars>>

\* ================================================================ Part II
\* ------------------------------------------------------ TransactionManager
\* A transaction id is the uuid4 drawn by Transaction.__init__ (the n-th
\* transaction created has uuid n); a Gate transaction id is another kind of key.
Uuid(n) == [kind |-> "uuid", n |-> n]
GateKey(g) == [kind |-> "gate", n |-> g]

TransactionStatus == {"pending", "waiting_payment", "payment_received", "validating",
                      "approved", "rejected", "completed", "cancelled"}

\* Transaction.__init__ with the fields create_transaction fills in
NewTransaction(amount) ==
    [amount |-> amount, status |-> "pending", payment_method |-> "",
     payment_phone |-> NoText, payment_details_sent |-> FALSE, buyer_status |-> "",
     receipt_received |-> FALSE, receipt_validated |-> FALSE]

\* TransactionManager._compare_amounts: 1% of the expected amount
CompareAmounts(expected, found) ==
    /\ found # NULL
    /\ 100 * (IF expected >= found THEN expected - found ELSE found - expected) <= expected

\* TransactionManager.get_transaction: the index of the transaction stored
\* under the key (in memory or in transactions/<key>.json), 0 for None
GetTransaction(txs, key) ==
    IF key.kind = "uuid" /\ key.n \in 1..Len(txs) THEN key.n ELSE 0

\* TransactionManager.update_transaction_status
UpdateTransactionStatusOn(txs, key, status) ==
    LET t == GetTransaction(txs, key)
    IN  IF t = 0 THEN txs ELSE [txs EXCEPT ![t].status = status]

\* TransactionManager.set_payment_details(transaction_id, "SBP", phone)
SetPaymentDetailsOn(txs, key, phone) ==
    LET t == GetTransaction(txs, key)
    IN  IF t = 0 THEN txs
        ELSE [txs EXCEPT ![t].payment_method = "SBP", ![t].payment_phone = phone,
                         ![t].payment_details_sent = TRUE,
                         ![t].status = "waiting_payment"]

\* TransactionManager.process_receipt; saved is whether save_check succeeded
ProcessReceiptOn(txs, key, saved) ==
    LET t == GetTransaction(txs, key)
    IN  IF t = 0 \/ ~saved THEN txs
        ELSE [txs EXCEPT ![t].receipt_received = TRUE, ![t].status = "validating"]

\* re.sub(r'[\s\-\+]', '', phone) and the removal of a leading 7, then 8
NormPhone(phone) ==
    LET digits == SelectSeq(phone, LAMBDA c : c \notin {" ", "-", "+"})
        no7 == IF digits # <<>> /\ Head(digits) = "7" THEN Tail(digits) ELSE digits
    IN  IF no7 # <<>> /\ Head(no7) = "8" THEN Tail(no7) ELSE no7

\* TransactionManager._compare_phones
ComparePhones(expected, found) ==
    /\ found # NoText
    /\ NormPhone(expected) = NormPhone(found)

\* the checks of TransactionManager.validate_receipt on what was read from the
\* receipt (no transaction of the model has a payment card)
ReceiptIsValid(tx, ocr_phone, ocr_amount) ==
    /\ tx.payment_phone # NoText => ComparePhones(tx.payment_phone, ocr_phone)
    /\ tx.amount # 0 => CompareAmounts(tx.amount, ocr_amount)

\* TransactionManager.validate_receipt
ValidateReceiptOn(txs, key, ocr_phone, ocr_amount) ==
    LET t == GetTransaction(txs, key)
    IN  IF t = 0 THEN txs
        ELSE [txs EXCEPT ![t].receipt_validated = TRUE,
                         ![t].status = IF ReceiptIsValid(txs[t], ocr_phone, ocr_amount)
                                       THEN "approved" ELSE "rejected"]

\* TransactionManager.get_transactions_by_status, in the order of the dict
GetTransactionsByStatus(txs, status) ==
    SelectSeq([i \in 1..Len(txs) |-> i], LAMBDA i : txs[i].status = status)

\* --------------------------------------------------------- ChatFlowManager
NoSession == [state |-> "none", updated_at |-> 0, payment_details_sent |-> FALSE,
              payment_method |-> "", messages |-> <<>>]

\* ChatSession.add_message; a message is <<sender, content>>
AddMessage(fl, t, sender, content, w) ==
    [fl EXCEPT !.sessions[t].messages = Append(@, <<sender, content>>),
               !.sessions[t].updated_at = w]

\* the buyer's messages, word by word; "DA" "!" is an upper-case yes with a mark
FlowTexts == {<<"da">>, <<"DA", "!">>, <<"net">>, <<"podtverzhdayu">>,
              <<"ne", "podtverzhdayu">>, <<"privet">>}

Lower(w) == IF w = "DA" THEN "da" ELSE w

\* ChatFlowManager._normalize_response: lower case, punctuation removed
NormalizeResponse(message) ==
    LET lowered == [i \in 1..Len(message) |-> Lower(message[i])]
    IN  SelectSeq(lowered, LAMBDA w : w \notin {"!", ".", ","})

FLOW_YES == {<<"da">>, <<"yes">>, <<"d">>}
FLOW_NO == {<<"net">>, <<"no">>, <<"n">>}
FLOW_CONFIRM == {<<"podtverzhdayu">>, <<"confirm">>, <<"p">>}
FLOW_DENY == {<<"ne", "podtverzhdayu">>, <<"ne">>, <<"net">>, <<"cancel">>}

\* The chat flow works on fl = [txs, sessions, saved, sent, alt, order, raised];
\* raised says that an exception left the handler.
\* ChatFlowManager._save_session
SaveSession(fl, t) == [fl EXCEPT !.saved[t] = fl.sessions[t]]

\* ChatFlowManager.get_session: from memory, else from the saved file
GetSession(fl, t) ==
    IF fl.sessions[t] # NoSession THEN fl
    ELSE [fl EXCEPT !.sessions[t] = fl.saved[t]]

\* session.add_message("bot", response) and the return of the response
Respond(fl, t, kind, w) ==
    [AddMessage(fl, t, "bot", kind, w) EXCEPT !.sent = @ \cup {<<t, kind>>}]

\* ChatFlowManager.process_new_buyer
ProcessNewBuyer(fl, t, w) ==
    LET created == SaveSession([fl EXCEPT !.sessions[t] =
                                   [NoSession EXCEPT !.state = "initial", !.updated_at = w]], t)
        greeted == [AddMessage(created, t, "bot", "greeting", w) EXCEPT
                       !.sessions[t].state = "waiting_bank_confirmation"]
    IN  SaveSession(greeted, t)

\* ChatFlowManager._mark_transaction_fool: item assignment on a Transaction
\* object raises TypeError when the transaction exists
MarkTransactionFool(fl, t) ==
    IF GetTransaction(fl.txs, Uuid(t)) # 0 THEN [fl EXCEPT !.raised = TRUE] ELSE fl

\* the rejecting branch of the three confirmation handlers
Reject(fl, t, w) ==
    LET marked == MarkTransactionFool([fl EXCEPT !.sessions[t].state = "rejected"], t)
    IN  IF marked.raised THEN marked ELSE Respond(marked, t, "rejection", w)

\* ChatFlowManager._process_bank_confirmation and _process_pdf_confirmation
ProcessYesNoConfirmation(fl, t, normalized, w, next, question) ==
    IF normalized \in FLOW_YES
    THEN [Respond(fl, t, question, w) EXCEPT !.sessions[t].state = next]
    ELSE IF normalized \in FLOW_NO THEN Reject(fl, t, w)
    ELSE Respond(fl, t, "repeat", w)

\* ChatFlowManager._get_payment_details followed by the rest of the confirming
\* branch of _process_sbp_confirmation: Transaction has no method get, so
\* formatting the template raises AttributeError when the transaction exists
SendPaymentDetails(fl, t, w) ==
    LET noted == [fl EXCEPT !.order = IF \E i \in 1..Len(@) : @[i] = t THEN @ ELSE Append(@, t)]
    IN  IF GetTransaction(fl.txs, Uuid(t)) = 0
        THEN [Respond(noted, t, "payment_error", w) EXCEPT
                  !.sessions[t].state = "payment_details_sent",
                  !.sessions[t].payment_details_sent = TRUE]
        ELSE [noted EXCEPT !.sessions[t].payment_method =
                               IF fl.alt = 0 THEN "SBP" ELSE "Tinkoff",
                           !.alt = 1 - fl.alt,
                           !.raised = TRUE]

\* ChatFlowManager._process_sbp_confirmation
ProcessSbpConfirmation(fl, t, normalized, w) ==
    IF normalized \in FLOW_CONFIRM THEN SendPaymentDetails(fl, t, w)
    ELSE IF normalized \in FLOW_DENY THEN Reject(fl, t, w)
    ELSE Respond(fl, t, "repeat", w)

\* ChatFlowManager.process_buyer_response
ProcessBuyerResponse(fl, t, message, w) ==
    LET got == GetSession(fl, t)
    IN  IF got.sessions[t] = NoSession THEN fl
        ELSE LET added == AddMessage(got, t, "buyer", message, w)
                 state == added.sessions[t].state
                 normalized == NormalizeResponse(message)
                 done ==
                    CASE state = "waiting_bank_confirmation" ->
                            ProcessYesNoConfirmation(added, t, normalized, w,
                                "waiting_pdf_confirmation", "pdf_check")
                      [] state = "waiting_pdf_confirmation" ->
                            ProcessYesNoConfirmation(added, t, normalized, w,
                                "waiting_sbp_confirmation", "sbp_warning")
                      [] state = "waiting_sbp_confirmation" ->
                            ProcessSbpConfirmation(added, t, normalized, w)
                      [] OTHER -> added
             IN  IF done.raised THEN done ELSE SaveSession(done, t)

Flow == [txs |-> manager_transactions, sessions |-> sessions, saved |-> saved_sessions,
         sent |-> sentMessages, alt |-> payment_alternator, order |-> confirmedOrder,
         raised |-> FALSE]

\* the flow's state written back
FlowBecomes(fl) ==
    /\ sessions' = fl.sessions
    /\ saved_sessions' = fl.saved
    /\ sentMessages' = fl.sent
    /\ payment_alternator' = fl.alt
    /\ confirmedOrder' = fl.order

\* process_buyer_response for one message of the buyer of transaction t
BuyerResponse(t, message) ==
    /\ t \in 1..MaxTm
    /\ Len(GetSession(Flow, t).sessions[t].messages) + 2 <= MaxMessages
    /\ FlowBecomes(ProcessBuyerResponse(Flow, t, message, week))
    /\ UNCHANGED <<manager_transactions, createdFor, week>>
    /\ UNCHANGED <<dbVars, restVars>>

\* ChatFlowManager.cleanup_old_sessions(days=7)
CleanupOldSessions ==
    /\ sessions' = [t \in 1..MaxTm |->
                       IF /\ sessions[t].state \in {"rejected", "completed"}
                          /\ sessions[t].updated_at < week - SessionRetentionWeeks
                       THEN NoSession ELSE sessions[t]]
    /\ UNCHANGED <<manager_transactions, createdFor, saved_sessions, sentMessages,
                   payment_alternator, confirmedOrder, week>>
    /\ UNCHANGED <<dbVars, restVars>>

\* a week passes
WeekPasses ==
    /\ week < MaxWeeks
    /\ week' = week + 1
    /\ UNCHANGED <<manager_transactions, createdFor, sessions, saved_sessions,
                   sentMessages, payment_alternator, confirmedOrder>>
    /\ UNCHANGED <<dbVars, restVars>>

\* ------------------------------------------------------ admin server, events
\* the websocket connections the admin server can hold
AdminClientIds == 1..MaxAdminClients

\* a slot of WebSocketAdminServer.clients that holds no connection
NoClient == [connected |-> FALSE, authenticated |-> FALSE, inbox |-> {}]

\* a message as it is sent down a websocket: its type, what it is about (the
\* event type or the error) and the transaction it names, NULL for none
Msg(type, detail, t) == [type |-> type, detail |-> detail, tx |-> t]

\* AdminClient.send_message
SendMessage(clients, c, message) == [clients EXCEPT ![c].inbox = @ \cup {message}]

\* broadcast_event sending to every connected client
BroadcastEventToAll(clients, events) ==
    [c \in AdminClientIds |->
        IF clients[c].connected
        THEN [clients[c] EXCEPT !.inbox = @ \cup events] ELSE clients[c]]

\* WebSocketAdminServer.broadcast_event, called for each of events in turn
BroadcastEvent(clients, events) ==
    [c \in AdminClientIds |->
        IF clients[c].connected /\ clients[c].authenticated
        THEN [clients[c] EXCEPT !.inbox = @ \cup events] ELSE clients[c]]

\* the "new_transaction" events of a cycle of monitor_transactions that found
\* the transactions before and left the transactions after
NewTransactionEvents(before, after) ==
    {Msg("event", "new_transaction", t) : t \in (Len(before) + 1)..Len(after)}

\* --------------------------------------------------------------- AutoTrader
\* what get_all_pending_transactions lists for the one Gate account
GateTxs == [id : GateIds, amount : {100}]

\* the body of the loop of AutoTrader.monitor_transactions for one listed
\* transaction, on mt = [fl, created]; messages is its Gate chat
MonitorOne(mt, gate_tx, messages, w) ==
    LET existing == GetTransaction(mt.fl.txs, GateKey(gate_tx.id))
    IN  IF existing = 0
        THEN LET t == Len(mt.fl.txs) + 1
                 made == [mt.fl EXCEPT !.txs = Append(@, NewTransaction(gate_tx.amount))]
                 greeted == ProcessNewBuyer(made, t, w)
             IN  [fl |-> [greeted EXCEPT !.sent = @ \cup {<<t, "greeting">>}],
                  created |-> Append(mt.created, gate_tx.id)]
        ELSE IF GetSession(mt.fl, existing).sessions[existing] = NoSession \/ messages = <<>>
             THEN mt
             ELSE [mt EXCEPT !.fl = ProcessBuyerResponse(mt.fl, existing, Head(messages), w)]

\* the loop over the listed transactions; an exception ends the poll
RECURSIVE MonitorAll(_, _, _, _)
MonitorAll(mt, listed, messages, w) ==
    IF listed = <<>> \/ mt.fl.raised THEN mt
    ELSE MonitorAll(MonitorOne(mt, Head(listed), messages, w), Tail(listed), messages, w)

\* one cycle of AutoTrader.monitor_transactions
MonitorTransactions(listed, messages) ==
    /\ Len(manager_transactions) + Len(listed) <= MaxTm
    /\ LET mt == MonitorAll([fl |-> Flow, created |-> createdFor], listed, messages, week)
       IN  /\ manager_transactions' = mt.fl.txs
           /\ createdFor' = mt.created
           /\ FlowBecomes(mt.fl)
           /\ LET events == NewTransactionEvents(manager_transactions, mt.fl.txs)
              IN  /\ broadcasts' = broadcasts \cup events
                  /\ admin_clients' = BroadcastEvent(admin_clients, events)
    /\ UNCHANGED <<week, all_transactions>>
    /\ UNCHANGED notMonitorVars

\* the active Gate accounts, in the order of list_gate_accounts
GateAccountIds == 1..MaxGateAccounts

\* the amount field of a listed transaction as the API delivers it
AmountTexts == {"100", "n/a"}

\* float(gate_tx.get("amount", 0)): the number, NULL for ValueError
Float(text) == IF text = "100" THEN 100 ELSE NULL

\* what get_all_pending_transactions can return: for each active account the
\* transactions listed for it ([] for an account whose request failed)
Listings ==
    {all \in [GateAccountIds -> SeqsUpTo([id : GateIds, amount : AmountTexts], 1)] :
        \A a, b \in GateAccountIds :
            a # b => \A i \in 1..Len(all[a]), j \in 1..Len(all[b]) : all[a][i].id # all[b][j].id}

\* the transactions of all accounts in the order the two for loops visit them
RECURSIVE Visited(_, _)
Visited(all, a) ==
    IF a > MaxGateAccounts THEN <<>> ELSE all[a] \o Visited(all, a + 1)

\* the two for loops of monitor_transactions, which share one try: the amount
\* is converted before create_transaction is called, and an exception leaves
\* both loops
RECURSIVE MonitorListed(_, _, _)
MonitorListed(mt, listed, w) ==
    IF listed = <<>> \/ mt.fl.raised THEN mt
    ELSE LET gate_tx == Head(listed)
             existing == GetTransaction(mt.fl.txs, GateKey(gate_tx.id))
         IN  IF existing = 0 /\ Float(gate_tx.amount) = NULL
             THEN [mt EXCEPT !.fl.raised = TRUE]
             ELSE MonitorListed(MonitorOne(mt, [id |-> gate_tx.id,
                                                amount |-> Float(gate_tx.amount)], <<>>, w),
                                Tail(listed), w)

\* one cycle of AutoTrader.monitor_transactions over the accounts
MonitorAccounts(all) ==
    /\ Len(manager_transactions) + Len(Visited(all, 1)) <= MaxTm
    /\ LET mt == MonitorListed([fl |-> Flow, created |-> createdFor], Visited(all, 1), week)
       IN  /\ manager_transactions' = mt.fl.txs
           /\ createdFor' = mt.created
           /\ FlowBecomes(mt.fl)
           /\ LET events == NewTransactionEvents(manager_transactions, mt.fl.txs)
              IN  /\ broadcasts' = broadcasts \cup events
                  /\ admin_clients' = BroadcastEvent(admin_clients, events)
    /\ all_transactions' = all
    /\ UNCHANGED week
    /\ UNCHANGED notMonitorVars

\* the loop of AutoTrader.process_receipt over the transactions waiting for
\* payment: the first whose receipt is saved is approved
RECURSIVE ApproveFirst(_, _, _)
ApproveFirst(txs, pending, saved) ==
    IF pending = <<>> THEN txs
    ELSE LET t == Head(pending)
             processed == ProcessReceiptOn(txs, Uuid(t), saved[t])
         IN  IF saved[t] THEN UpdateTransactionStatusOn(processed, Uuid(t), "approved")
             ELSE ApproveFirst(processed, Tail(pending), saved)

\* AutoTrader.process_receipt for a receipt d that arrived by e-mail
AutoProcessReceipt(d, saved) ==
    /\ manager_transactions' =
           ApproveFirst(manager_transactions,
                        GetTransactionsByStatus(manager_transactions, "waiting_payment"), saved)
    /\ UNCHANGED <<createdFor, sessions, saved_sessions, sentMessages, payment_alternator, confirmedOrder, week>>
    /\ UNCHANGED <<dbVars, restVars>>

\* ------------------------------------------- operations on one transaction
\* TransactionManager.update_transaction_status called with any status
UpdateTransactionStatus(t, status) ==
    /\ manager_transactions' = UpdateTransactionStatusOn(manager_transactions, Uuid(t), status)
    /\ UNCHANGED <<createdFor, sessions, saved_sessions, sentMessages, payment_alternator, confirmedOrder, week>>
    /\ UNCHANGED <<dbVars, restVars>>

SetPaymentDetails(t, phone) ==
    /\ manager_transactions' = SetPaymentDetailsOn(manager_transactions, Uuid(t), phone)
    /\ UNCHANGED <<createdFor, sessions, saved_sessions, sentMessages, payment_alternator, confirmedOrder, week>>
    /\ UNCHANGED <<dbVars, restVars>>

ManagerProcessReceipt(t, saved) ==
    /\ manager_transactions' = ProcessReceiptOn(manager_transactions, Uuid(t), saved)
    /\ UNCHANGED <<createdFor, sessions, saved_sessions, sentMessages, payment_alternator, confirmedOrder, week>>
    /\ UNCHANGED <<dbVars, restVars>>

ManagerValidateReceipt(t, ocr_phone, ocr_amount) ==
    /\ manager_transactions' =
           ValidateReceiptOn(manager_transactions, Uuid(t), ocr_phone, ocr_amount)
    /\ UNCHANGED <<createdFor, sessions, saved_sessions, sentMessages, payment_alternator, confirmedOrder, week>>
    /\ UNCHANGED <<dbVars, restVars>>

\* AdminWebSocketServer.handle_approve_transaction
HandleApproveTransaction(t) ==
    /\ manager_transactions' =
           UpdateTransactionStatusOn(manager_transactions, Uuid(t), "approved")
    /\ UNCHANGED <<createdFor, sessions, saved_sessions, sentMessages, payment_alternator, confirmedOrder, week>>
    /\ UNCHANGED <<dbVars, restVars>>

\* AdminWebSocketServer.handle_reject_transaction
HandleRejectTransaction(t) ==
    /\ LET found == GetTransaction(manager_transactions, Uuid(t))
       IN  IF found = 0 THEN UNCHANGED manager_transactions
           ELSE manager_transactions' = [manager_transactions EXCEPT ![found].status = "rejected"]
    /\ UNCHANGED <<createdFor, sessions, saved_sessions, sentMessages, payment_alternator, confirmedOrder, week>>
    /\ UNCHANGED <<dbVars, restVars>>

\* time passes in the chat of one order, long enough for the receipt timeout
ChatTick ==
    /\ now < MaxChatTime
    /\ now' = now + 1
    /\ UNCHANGED <<transactions, receipts, processing_queue, monitored_ads, matcher,
                   addToQueueCalls, observed, chatLog>>
    /\ UNCHANGED <<memVars, restVars>>

\* ================================================================ Part III
\* ------------------------------------------------------------ SmartAdCreator
\* the rows of bybit_accounts with is_active, in the order of the SELECT
Accounts == 1..MaxAccounts

\* what /v5/p2p/user/payment/list can hold for a user: id, paymentType and
\* paymentConfigVo.paymentName of each payment method
PaymentMethods ==
    <<[id |-> "1", type |-> "582", name |-> "SBP"],
      [id |-> "2", type |-> "583", name |-> "Tinkoff"],
      [id |-> "3", type |-> "14", name |-> "Bank Transfer"],
      [id |-> "-1", type |-> "377", name |-> "Balance"]>>

\* the answers of get_user_payment_methods: all methods, SBP and the balance
\* only, and the empty list of a failed request
UserMethodLists == {PaymentMethods, <<PaymentMethods[1], PaymentMethods[4]>>, <<>>}

\* str.lower on the names of the payment methods
LowerName(name) ==
    CASE name = "SBP" -> "sbp"
      [] name = "Tinkoff" -> "tinkoff"
      [] name = "Bank Transfer" -> "bank transfer"
      [] name = "Balance" -> "balance"
      [] OTHER -> name

\* the ad Bybit makes of /v5/p2p/item/create with paymentIds = [id]
NewAd(id) ==
    LET m == CHOOSE i \in 1..Len(PaymentMethods) : PaymentMethods[i].id = id
    IN  [paymentType |-> PaymentMethods[m].type, paymentName |-> PaymentMethods[m].name,
         frozenQuantity |-> 0]

\* SmartAdCreator.get_active_ads; a failed request yields the empty list
GetActiveAds(a, ok) == IF ok THEN online_ads[a] ELSE <<>>

\* the ads somebody responded to
AdsWithResponses(active_ads) == SelectSeq(active_ads, LAMBDA ad : ad.frozenQuantity > 0)

\* SmartAdCreator.analyze_active_ads
AnalyzeActiveAds(active_ads) ==
    [blocked |-> {active_ads[i].paymentType :
                     i \in {j \in 1..Len(active_ads) : ~(active_ads[j].frozenQuantity > 0)}},
     available |-> {active_ads[i].paymentType :
                       i \in {j \in 1..Len(active_ads) : active_ads[j].frozenQuantity > 0}}]

\* user_payment_map of select_payment_method: by lower-case name, the last
\* method of that name, the balance left out
UserPaymentMap(user_methods) ==
    LET kept == SelectSeq(user_methods, LAMBDA m : m.id # "-1")
        names == {LowerName(kept[i].name) : i \in 1..Len(kept)}
    IN  [n \in names |->
            kept[CHOOSE i \in 1..Len(kept) :
                    /\ LowerName(kept[i].name) = n
                    /\ \A j \in (i + 1)..Len(kept) : LowerName(kept[j].name) # n]]

\* the first name of the sequence whose method is in the map and not blocked
RECURSIVE FirstUnblocked(_, _, _)
FirstUnblocked(names, map, blocked) ==
    IF names = <<>> THEN ""
    ELSE IF Head(names) \in DOMAIN map /\ map[Head(names)].type \notin blocked
         THEN map[Head(names)].id
         ELSE FirstUnblocked(Tail(names), map, blocked)

\* SmartAdCreator.select_payment_method; "" stands for None
SelectPaymentMethod(user_methods, blocked_payment_types, active_ads) ==
    LET active_payment_names ==
            {LowerName(active_ads[i].paymentName) : i \in 1..Len(active_ads)}
        user_payment_map == UserPaymentMap(user_methods)
        kept == SelectSeq(user_methods, LAMBDA m : m.id # "-1")
        other == IF "sbp" \in active_payment_names THEN <<"tinkoff">>
                 ELSE IF "tinkoff" \in active_payment_names THEN <<"sbp">>
                 ELSE <<>>
        alternated == FirstUnblocked(other, user_payment_map, blocked_payment_types)
        preferred == FirstUnblocked(<<"sbp", "tinkoff", "bank transfer">>,
                                    user_payment_map, blocked_payment_types)
    IN  IF alternated # "" THEN alternated
        ELSE IF preferred # "" THEN preferred
        ELSE FirstUnblocked([i \in 1..Len(kept) |-> LowerName(kept[i].name)],
                            user_payment_map, blocked_payment_types)

\* the ads of account a after SmartAdCreator.create_smart_ad: listOk and
\* createOk say whether the requests for the list of ads and for the new ad
\* succeed, user_methods is what get_user_payment_methods returns
CreateSmartAdOn(a, listOk, user_methods, createOk) ==
    LET active_ads == GetActiveAds(a, listOk)
        analysis == AnalyzeActiveAds(active_ads)
        selected_method == SelectPaymentMethod(user_methods, analysis.blocked, active_ads)
    IN  IF Len(active_ads) >= 2 /\ Len(AdsWithResponses(active_ads)) = 0 THEN online_ads[a]
        ELSE IF selected_method = "" THEN online_ads[a]
        ELSE IF createOk THEN Append(online_ads[a], NewAd(selected_method))
        ELSE online_ads[a]

\* SmartAdCreator.create_smart_ad on account a
CreateSmartAd(a, listOk, user_methods, createOk) ==
    /\ Len(online_ads[a]) < MaxAds
    /\ online_ads' = [online_ads EXCEPT ![a] = CreateSmartAdOn(a, listOk, user_methods, createOk)]
    /\ UNCHANGED in_progress
    /\ UNCHANGED <<dbVars, memVars, opsVars>>

\* TransactionProcessor.find_available_bybit_account: the first account whose
\* list of active ads has at most one entry; listOk[a] says whether the
\* request for the list of account a succeeds
RECURSIVE FindAvailableFrom(_, _)
FindAvailableFrom(a, listOk) ==
    IF a > MaxAccounts THEN NULL
    ELSE IF Len(GetActiveAds(a, listOk[a])) <= 1 THEN a
    ELSE FindAvailableFrom(a + 1, listOk)

FindAvailableBybitAccount(listOk) == FindAvailableFrom(1, listOk)

\* find_available_bybit_account and create_p2p_ad as process_transaction
\* calls them
CreateP2pAd(findOk, listOk, user_methods, createOk) ==
    LET bybit_account == FindAvailableBybitAccount(findOk)
    IN  /\ bybit_account # NULL
        /\ CreateSmartAd(bybit_account, listOk, user_methods, createOk)

\* a buyer opens an order on an ad: its frozenQuantity becomes positive
BuyerResponds(a, i) ==
    /\ i \in 1..Len(online_ads[a])
    /\ online_ads[a][i].frozenQuantity = 0
    /\ online_ads' = [online_ads EXCEPT ![a][i].frozenQuantity = 1]
    /\ UNCHANGED in_progress
    /\ UNCHANGED <<dbVars, memVars, opsVars>>

\* the order is cancelled, by the buyer or when the paymentPeriod of 15
\* minutes ends: the quantity is no longer frozen and the ad stays online
OrderCancelled(a, i) ==
    /\ i \in 1..Len(online_ads[a])
    /\ online_ads[a][i].frozenQuantity > 0
    /\ online_ads' = [online_ads EXCEPT ![a][i].frozenQuantity = 0]
    /\ UNCHANGED in_progress
    /\ UNCHANGED <<dbVars, memVars, opsVars>>

\* the order is completed and the ad goes offline
AdCompleted(a, i) ==
    /\ i \in 1..Len(online_ads[a])
    /\ online_ads[a][i].frozenQuantity > 0
    /\ online_ads' = [online_ads EXCEPT ![a] = SubSeq(@, 1, i - 1) \o SubSeq(@, i + 1, Len(@))]
    /\ UNCHANGED in_progress
    /\ UNCHANGED <<dbVars, memVars, opsVars>>

\* ============================================================ Gate accounts
\* Account.__init__; attempted_at and failed_at are history: the time of the
\* last call of _login_account for the account and of the last one that failed
NewGateAccount == [status |-> "inactive", last_login |-> NULL, attempted_at |-> NULL,
                   failed_at |-> NULL]

\* GateMultiClient._login_account at time t: after a successful login
\* update_gate_cookies stamps the account; update_gate_status, called on either
\* outcome, is not a method of AccountManager, so the call raises AttributeError
\* and the status is left as it is
LoginAccountOn(account, success, t) ==
    IF success
    THEN [account EXCEPT !.status = "active", !.last_login = t, !.attempted_at = t]
    ELSE [account EXCEPT !.attempted_at = t, !.failed_at = t]

\* AccountManager.get_gate_accounts_needing_relogin at time t: a cycle starts a
\* full interval after the one before it ended, so a login of an earlier cycle
\* is older than the cutoff
GetGateAccountsNeedingRelogin(accounts, t) ==
    {a \in GateAccountIds : /\ accounts[a].status \in {"active", "inactive"}
                            /\ \/ accounts[a].last_login = NULL
                               \/ accounts[a].last_login < t}

\* GateMultiClient.login_all, called once by AutoTrader.start: every account
\* that is not active; an exception of a login is caught for its account
LoginAll(success) ==
    /\ relogin_clock = 0
    /\ gate_accounts' = [a \in GateAccountIds |->
                            IF gate_accounts[a].status # "active"
                            THEN LoginAccountOn(gate_accounts[a], success[a], 1)
                            ELSE gate_accounts[a]]
    /\ relogin_clock' = 1
    /\ UNCHANGED <<dbVars, memVars, in_progress, online_ads, ready_transactions, loops,
                   all_transactions, limiterVars, lateVars>>

\* one iteration of AutoTrader.periodic_gate_relogin: relogin_needed_accounts,
\* which catches the exception of a login for its account, then the sleep
ReloginNeededAccounts(success) ==
    /\ relogin_clock \in 1..(MaxCycles - 1)
    /\ LET needing == GetGateAccountsNeedingRelogin(gate_accounts, relogin_clock)
       IN  gate_accounts' = [a \in GateAccountIds |->
                                IF a \in needing
                                THEN LoginAccountOn(gate_accounts[a], success[a], relogin_clock)
                                ELSE gate_accounts[a]]
    /\ relogin_clock' = relogin_clock + 1
    /\ UNCHANGED <<dbVars, memVars, in_progress, online_ads, ready_transactions, loops,
                   all_transactions, limiterVars, lateVars>>

\* ============================================================= RateLimiter
\* the coroutines that call GateClient._request
Callers == 1..MaxCallers

\* everything of the model but the limiter
notLimiterVars == <<dbVars, memVars, in_progress, online_ads, ready_transactions, loops,
                    all_transactions, gate_accounts, relogin_clock, lateVars>>

\* [t for t in self.requests if now - t < self.window_seconds]
RecentRequests(ages) == SelectSeq(ages, LAMBDA age : age < window_seconds)

\* GateClient._request: await self.rate_limiter.acquire()
Acquire(c) ==
    /\ callers[c].pc = "idle"
    /\ callers' = [callers EXCEPT ![c].pc = "acquire"]
    /\ UNCHANGED <<requests, lock>>
    /\ UNCHANGED notLimiterVars

\* RateLimiter.acquire from async with self.lock, once the lock is free, to its
\* next await: at the limit the caller sleeps with the lock held, else it
\* records the request and leaves the with block
AcquireLocked(c) ==
    /\ callers[c].pc = "acquire"
    /\ lock = NULL
    /\ LET recent == RecentRequests(requests)
       IN  IF Len(recent) >= max_requests
           THEN /\ requests' = recent
                /\ lock' = c
                /\ callers' = [callers EXCEPT ![c] =
                                   [pc |-> "sleep",
                                    sleep_time |-> window_seconds - recent[1] + 1]]
           ELSE /\ requests' = Append(recent, 0)
                /\ lock' = NULL
                /\ callers' = [callers EXCEPT ![c].pc = "request"]
    /\ UNCHANGED notLimiterVars

\* asyncio.sleep(sleep_time) is over: return await self.acquire(), the call
\* made inside the with block, which arrives at async with self.lock again
AcquireAgain(c) ==
    /\ callers[c].pc = "sleep"
    /\ callers[c].sleep_time = 0
    /\ callers' = [callers EXCEPT ![c].pc = "acquire"]
    /\ UNCHANGED <<requests, lock>>
    /\ UNCHANGED notLimiterVars

\* session.request(...) of _request answers
RequestDone(c) ==
    /\ callers[c].pc = "request"
    /\ callers' = [callers EXCEPT ![c].pc = "idle"]
    /\ UNCHANGED <<requests, lock>>
    /\ UNCHANGED notLimiterVars

\* one second passes: time.time() grows, the sleeps run down; an age of
\* window_seconds stands for every larger one
Second ==
    /\ requests' = [i \in 1..Len(requests) |->
                       IF requests[i] < window_seconds THEN requests[i] + 1 ELSE requests[i]]
    /\ callers' = [c \in Callers |->
                      IF callers[c].pc = "sleep" /\ callers[c].sleep_time > 0
                      THEN [callers[c] EXCEPT !.sleep_time = @ - 1]
                      ELSE callers[c]]
    /\ UNCHANGED lock
    /\ UNCHANGED notLimiterVars

\* ============================================================= ChatManager
\* the orders ChatManager holds a chat for
ChatOrderIds == 1..MaxChatOrders

\* the tasks that call send_payment_details: the _monitor_order_chat task of
\* each order (named by the order) and TraderSystem.monitor_active_orders
OrdersTask == MaxChatOrders + 1
ChatTasks == ChatOrderIds \cup {OrdersTask}

\* ========================================================= GateClient throttle
\* the threads of GateMultiClient.executor (and of the default executor) that
\* run a method of the same GateClient
Threads == 1..MaxThreads

\* everything modelled before the parts modelled last
earlyVars == <<dbVars, memVars, in_progress, online_ads, ready_transactions, loops,
               all_transactions, gate_accounts, relogin_clock, limiterVars>>

notThrottleVars == <<earlyVars, processVars, adminVars, lastVars>>

\* GateClient._rate_limit up to its sleep: current_time, time_since_last and
\* the test are taken from one reading of the clock and of last_request_time
RateLimitRead(th) ==
    /\ threads[th].pc = "idle"
    /\ LET time_since_last == client_clock - last_request_time
       IN  threads' = [threads EXCEPT ![th] =
                          IF time_since_last < min_request_interval
                          THEN [pc |-> "sleep",
                                wake |-> client_clock + (min_request_interval - time_since_last)]
                          ELSE [pc |-> "stamp", wake |-> 0]]
    /\ UNCHANGED <<client_clock, last_request_time, previous_start>>
    /\ UNCHANGED notThrottleVars

\* time.sleep(sleep_time) returns
RateLimitSlept(th) ==
    /\ threads[th].pc = "sleep"
    /\ client_clock >= threads[th].wake
    /\ threads' = [threads EXCEPT ![th] = [pc |-> "stamp", wake |-> 0]]
    /\ UNCHANGED <<client_clock, last_request_time, previous_start>>
    /\ UNCHANGED notThrottleVars

\* self.last_request_time = time.time(), and _make_request starts
\* self.session.request
MakeRequest(th) ==
    /\ threads[th].pc = "stamp"
    /\ last_request_time' = client_clock
    /\ previous_start' = client_clock
    /\ threads' = [threads EXCEPT ![th].pc = "request"]
    /\ UNCHANGED client_clock
    /\ UNCHANGED notThrottleVars

\* the response arrives (or the request raises): the thread is free for the
\* next call on the client
RequestReturns(th) ==
    /\ threads[th].pc = "request"
    /\ threads' = [threads EXCEPT ![th].pc = "idle"]
    /\ UNCHANGED <<client_clock, last_request_time, previous_start>>
    /\ UNCHANGED notThrottleVars

\* the client's clock advances
ClockTick ==
    /\ client_clock < MaxClock
    /\ client_clock' = client_clock + 1
    /\ UNCHANGED <<last_request_time, threads, previous_start>>
    /\ UNCHANGED notThrottleVars

\* ========================================================== periodic loops
\* the thread functions with a while self.running loop
Loops == {"monitor_emails", "monitor_gate_transactions", "release_scheduler",
          "process_queue", "_monitor_orders"}

\* the statements of one iteration at which an exception can be raised
Sites(l) ==
    CASE l = "monitor_emails" -> {"messages.list", "messages.get", "process_email_receipt",
                                  "messages.modify"}
      [] l = "monitor_gate_transactions" -> {"get_db_connection", "get_pending_transactions",
                                             "process_gate_transaction"}
      [] l = "release_scheduler" -> {"get_db_connection", "execute", "release_funds"}
      [] l = "process_queue" -> {"queue.get", "process_transaction"}
      [] l = "_monitor_orders" -> {"monitored_ads.items", "_check_ad_orders"}

\* process_queue with no except clause but the one for queue.Empty, and
\* process_transaction letting its exceptions through
HandlerOfBareWorker(l, site) ==
    IF l = "process_queue" /\ site = "process_transaction" THEN "none"
    ELSE IF site \in {"process_email_receipt", "release_funds", "_check_ad_orders",
                      "process_gate_transaction"}
    THEN "callee"
    ELSE IF l = "monitor_gate_transactions"
    THEN IF site = "get_pending_transactions" THEN "account" ELSE "cycle"
    ELSE "loop"

\* the except clause that catches an exception raised at the site: the one of
\* the called method ("callee": process_email_receipt, process_gate_transaction,
\* release_funds, process_transaction and _check_ad_orders wrap their bodies in
\* try/except Exception), the one around one account or around the whole of
\* check_gate_transactions ("account", "cycle"), or the one inside the while
\* loop ("loop"); "none" if the exception leaves the thread function
HandlerOf(l, site) ==
    IF site \in {"process_email_receipt", "release_funds", "process_transaction",
                 "_check_ad_orders", "process_gate_transaction"}
    THEN "callee"
    ELSE IF l = "monitor_gate_transactions"
    THEN IF site = "get_pending_transactions" THEN "account" ELSE "cycle"
    ELSE "loop"

\* resumed: an iteration has started after an exception was caught
LoopStarted == [alive |-> TRUE, iterations |-> 0, caught |-> 0, last |-> "none",
                resumed |-> FALSE]

\* one iteration of loop l in which the statement at site raises (site "" for
\* an iteration without exception): an exception handled below the loop lets
\* the iteration go on, one handled in the loop ends the iteration (the loop
\* then sleeps 60 s, process_queue goes on at once), an unhandled one ends the thread
Iteration(l, site) ==
    /\ loops[l].alive
    /\ loops[l].iterations < MaxIterations
    /\ LET handler == IF site = "" THEN "" ELSE HandlerOf(l, site)
           counted == [loops[l] EXCEPT !.iterations = @ + 1,
                                       !.resumed = @ \/ loops[l].caught > 0]
       IN  loops' = [loops EXCEPT ![l] =
                        CASE handler = "" -> [counted EXCEPT !.last = "completed"]
                          [] handler \in {"callee", "account", "cycle"} ->
                                 [counted EXCEPT !.caught = @ + 1, !.last = "completed"]
                          [] handler = "loop" ->
                                 [counted EXCEPT !.caught = @ + 1, !.last = "skipped"]
                          [] OTHER -> [counted EXCEPT !.alive = FALSE, !.last = "raised"]]
    /\ UNCHANGED <<dbVars, memVars, in_progress, online_ads, ready_transactions,
                   all_transactions, clientVars>>

\* ===================================================== pipeline specification
Init ==
    /\ transactions = <<>>
    /\ receipts = <<>>
    /\ processing_queue = <<>>
    /\ monitored_ads = {}
    /\ matcher = MatcherIdle
    /\ now = 0
    /\ addToQueueCalls = [g \in GateIds |-> 0]
    /\ observed = [g \in GateIds |-> "never"]
    /\ chatLog = {}
    /\ manager_transactions = <<>>
    /\ createdFor = <<>>
    /\ sessions = [t \in 1..MaxTm |-> NoSession]
    /\ saved_sessions = [t \in 1..MaxTm |-> NoSession]
    /\ sentMessages = {}
    /\ payment_alternator = 0
    /\ confirmedOrder = <<>>
    /\ week = 0
    /\ in_progress = [w \in Workers |-> NULL]
    /\ online_ads = [a \in Accounts |-> <<>>]
    /\ ready_transactions = <<>>
    /\ loops = [l \in Loops |-> LoopStarted]
    /\ all_transactions = [a \in GateAccountIds |-> <<>>]
    /\ gate_accounts = [a \in GateAccountIds |-> NewGateAccount]
    /\ relogin_clock = 0
    /\ requests = <<>>
    /\ lock = NULL
    /\ callers = [c \in Callers |-> [pc |-> "idle", sleep_time |-> 0]]
    /\ client_clock = min_request_interval
    /\ last_request_time = 0
    /\ threads = [th \in Threads |-> [pc |-> "idle", wake |-> 0]]
    /\ previous_start = NULL
    /\ restarts = 0
    /\ assets_released = [o \in OrderIds |-> 0]
    /\ admin_clients = [c \in AdminClientIds |-> NoClient]
    /\ broadcasts = {}
    /\ order_chat = <<>>
    /\ fed_upto = 0
    /\ active_chats = [o \in ChatOrderIds |-> [agreed |-> FALSE]]
    /\ orders_with_shown_payment = {}
    /\ details_messages = [o \in ChatOrderIds |-> 0]
    /\ chat_tasks = [k \in ChatTasks |-> [pc |-> "idle", order |-> NULL]]

\* the pipeline is explored with MaxRows Gate transactions, one wallet, receipts that name a phone, and
\* no chat history at the time an order is first seen
OneWalletPayouts == {p \in Payouts : p.wallet = PhoneWallet}
PipelinePayouts == {p \in OneWalletPayouts : p.id <= MaxRows}
PipelineReceipts == {d \in MailedReceipts : d.phone # NoText}

PollGate == \E payouts \in SeqsUpTo(PipelinePayouts, MaxPayouts) : CheckGateTransactions(payouts)
Worker == \E outcome \in {"no_account", "ad_failed", "ad_created"} : ProcessTransaction(outcome)
ChatBot ==
    \E ad \in monitored_ads, orders \in OrderLists :
        \E sendOk \in [1..Len(orders) -> BOOLEAN] :
            CheckAdOrders(ad, orders, <<>>, sendOk)
Mail == \E d \in PipelineReceipts : SaveReceipt(d)
\* ReceiptProcessor.process_receipt, run once for a saved receipt: the OCR step that
\* save_receipt triggers (TransactionProcessor.process_receipt, which is to start
\* it, has an empty body)
Ocr == \E r \in ReceiptIds, order \in SeqsUpTo(TxIds, Len(transactions)) : ProcessReceipt(r, order)
Release == \E id \in TxIds, success \in BOOLEAN : ReleaseFunds(id, success)

Next ==
    \/ PollGate
    \/ Worker
    \/ ChatBot
    \/ Mail
    \/ Ocr
    \/ MatchReceiptToTransaction
    \/ Release
    \/ Tick

Spec == Init /\ [][Next]_vars

\* ==================================================== discovery specification
\* Gate discovery and the queue worker alone, with every payout the API can list
PollGateAny == \E payouts \in SeqsUpTo(Payouts, MaxPayouts) : CheckGateTransactions(payouts)

NextIngest ==
    \/ PollGateAny
    \/ Worker

SpecIngest == Init /\ [][NextIngest]_vars

RowsOf(gate_tx_id) == {i \in TxIds : transactions[i].gate_transaction_id = gate_tx_id}

PollGateOneWallet ==
    \E payouts \in SeqsUpTo(OneWalletPayouts, MaxPayouts) : CheckGateTransactions(payouts)

NextMatch ==
    \/ PollGateOneWallet
    \/ Worker
    \/ ChatBot
    \/ Mail
    \/ Ocr
    \/ MatchReceiptToTransaction

SpecMatch == Init /\ [][NextMatch]_vars

TerminalStatuses == {"fool_pool", "released", "error"}

\* C4: in the database pipeline a row whose status is 'fool_pool', 'released'
\* or 'error' keeps that status in every later step of the chat bot, the
\* receipt matcher, the queue worker and the release scheduler.
C4_TerminalStays ==
    [][\A i \in TxIds : transactions[i].status \in TerminalStatuses
                            => transactions'[i].status = transactions[i].status]_vars

\* the matching conditions as C7 states them: an open transaction, the amount
\* within tolerance, the stored contact equal to the receipt's phone or ending
\* in the receipt's card digits, and the bank the expected one
C7_Matches(txs, d) ==
    \E i \in 1..Len(txs) :
        /\ txs[i].status \in {"waiting_payment", "waiting_receipt"}
        /\ CompareAmounts(txs[i].amount_rub, d.amount)
        /\ \/ d.phone # NoText /\ d.phone = CleanWallet(txs[i].wallet)
           \/ /\ d.card_last4 # NoText
              /\ Len(d.card_last4) <= Len(txs[i].wallet)
              /\ d.card_last4 = SubSeq(txs[i].wallet,
                                       Len(txs[i].wallet) - Len(d.card_last4) + 1,
                                       Len(txs[i].wallet))
        /\ d.bank = "T-Bank"

\* C7: a run of match_receipt_to_transaction links the receipt to a transaction
\* if and only if some open transaction has an amount within tolerance of the
\* receipt's, a contact equal to the receipt's phone or card digits, and the
\* bank matches; otherwise it links and approves nothing.
C7_LinksIffMatches ==
    [][matcher.pc = "matching" /\ matcher'.pc = "idle"
          => ((receipts'[matcher.receipt_id].transaction_id # NULL)
                 <=> C7_Matches(transactions, receipts[matcher.receipt_id].data))]_vars

\* the receipts linked to transaction i
ReceiptsOf(i) == {r \in ReceiptIds : receipts[r].transaction_id = i}

\* C8: whatever the order in which receipts arrive, no transaction is linked
\* to more than one receipt (and a receipt names at most one transaction, its
\* transaction_id column).
C8_OneReceiptPerTransaction ==
    \A i \in TxIds : Cardinality(ReceiptsOf(i)) <= 1

\* the selected candidates that pass the contact test of the matcher
Satisfying(txs, candidates, d) ==
    {i \in Range(candidates) : ContactMatches(txs[i].wallet, d)}

\* C10: when several selected candidates satisfy the matching conditions, the
\* receipt is linked to the one created first (the lowest row id), whatever
\* the order in which the SELECT returned them.
C10_EarliestWins ==
    [][matcher.pc = "matching" /\ receipts'[matcher.receipt_id].transaction_id # NULL
          => LET sat == Satisfying(transactions, matcher.candidates,
                                   receipts[matcher.receipt_id].data)
             IN  \A i \in sat : receipts'[matcher.receipt_id].transaction_id <= i]_vars

\* ========================================================= chat specification
\* P2PChatBot._handle_order_chat for the order bound to a monitored
\* transaction; messages is what get_chat_messages returns for that order
HandleChat(id, messages, sendOk) ==
    /\ \E ad \in monitored_ads : ad[2] = id
    /\ transactions[id].bybit_order_id # NULL
    /\ LET st0 == [txs |-> transactions, mon |-> monitored_ads, log |-> chatLog]
           st1 == HandleOrderChat(st0, id, messages, sendOk, now)
       IN  /\ transactions' = st1.txs
           /\ monitored_ads' = st1.mon
           /\ chatLog' = st1.log
    /\ UNCHANGED <<receipts, processing_queue, matcher, now, addToQueueCalls, observed>>
    /\ UNCHANGED <<memVars, restVars>>

Chat ==
    \E id \in TxIds, messages \in PolledMessages, sendOk \in BOOLEAN :
        HandleChat(id, messages, sendOk)

\* discovery, ad creation, order binding and the scripted chat, the chat
\* handler being run on the bound order in every cycle of the monitor
NextChat ==
    \/ PollGate
    \/ Worker
    \/ ChatBot
    \/ Chat
    \/ ChatTick

SpecChat == Init /\ [][NextChat]_vars

\* the latest buyer message is one of the denials of the final confirmation
LatestDenies(messages) ==
    /\ LatestUserIndex(messages) # 0
    /\ MatchesPatterns(messages[LatestUserIndex(messages)].message, KYC_DENY_PATTERNS)

\* C6: when the chat handler meets a denial as the buyer's latest answer at the
\* final confirmation step (chat_stage 'kyc_confirm'), the transaction goes to
\* the fool pool and does not advance towards sending the requisites.
C6_DenyGoesToFoolPool ==
    [][\A id \in TxIds, messages \in PolledMessages, sendOk \in BOOLEAN :
          (/\ transactions[id].chat_stage = "kyc_confirm"
           /\ LatestDenies(messages)
           /\ HandleChat(id, messages, sendOk))
          => /\ transactions'[id].status = "fool_pool"
             /\ transactions'[id].chat_stage # "reqs_sent"
             /\ <<id, "requisites">> \notin chatLog']_vars

\* ========================================================== manager specification
\* the operations on the transactions held by TransactionManager
ManagerIds == 1..Len(manager_transactions)
OcrPhones == {ReceiptPhone, <<"4", "5">>, NoText}
OcrAmounts == ReceiptAmounts \cup {NULL}
EmailReceipts == [phone : {ReceiptPhone, <<"4", "5">>}, amount : ReceiptAmounts]

Monitor ==
    \E listed \in SeqsUpTo(GateTxs, MaxPayouts), messages \in SeqsUpTo(FlowTexts, 1) :
        MonitorTransactions(listed, messages)
Update == \E t \in ManagerIds, status \in TransactionStatus : UpdateTransactionStatus(t, status)
Details == \E t \in ManagerIds : SetPaymentDetails(t, PhoneWallet)
Received == \E t \in ManagerIds, saved \in BOOLEAN : ManagerProcessReceipt(t, saved)
Validated ==
    \E t \in ManagerIds, ocr_phone \in OcrPhones, ocr_amount \in OcrAmounts :
        ManagerValidateReceipt(t, ocr_phone, ocr_amount)
Emailed ==
    \E d \in EmailReceipts, saved \in [1..MaxTm -> BOOLEAN] : AutoProcessReceipt(d, saved)
Approve == \E t \in ManagerIds : HandleApproveTransaction(t)
RejectByAdmin == \E t \in ManagerIds : HandleRejectTransaction(t)

NextManager ==
    \/ Monitor
    \/ Update
    \/ Details
    \/ Received
    \/ Validated
    \/ Emailed
    \/ Approve
    \/ RejectByAdmin

SpecManager == Init /\ [][NextManager]_vars

\* ============================================================ flow specification
\* discovery by AutoTrader, the buyer's answers, and the session clean-up
Answer == \E t \in ManagerIds, message \in FlowTexts : BuyerResponse(t, message)

\* the answer is one of those the handler of the session's state knows
Recognised(state, normalized) ==
    \/ /\ state \in {"waiting_bank_confirmation", "waiting_pdf_confirmation"}
       /\ normalized \in FLOW_YES \cup FLOW_NO
    \/ /\ state = "waiting_sbp_confirmation"
       /\ normalized \in FLOW_CONFIRM \cup FLOW_DENY

\* the negotiations of two buyers who answer the question they were asked
AnswerAsked ==
    \E t \in ManagerIds, message \in FlowTexts :
        /\ Recognised(GetSession(Flow, t).sessions[t].state, NormalizeResponse(message))
        /\ BuyerResponse(t, message)

NextFlow ==
    \/ Monitor
    \/ AnswerAsked
    \/ CleanupOldSessions
    \/ WeekPasses

SpecFlow == Init /\ [][NextFlow]_vars

\* ================================================= claims on the in-memory pipeline
\* the transactions created for Gate id g
CreatedFor(g) == {t \in ManagerIds : createdFor[t] = g}

\* C2: a Gate transaction id listed in several cycles of monitor_transactions
\* has exactly one Transaction, one chat session and one greeting; observing
\* it again creates nothing.  (A Transaction exists for g only after g was
\* listed, so "at most one" is what can fail.)
C2_OneTransactionPerGateId ==
    \A g \in GateIds :
        /\ Cardinality(CreatedFor(g)) <= 1
        /\ Cardinality({t \in CreatedFor(g) : saved_sessions[t] # NoSession}) <= 1
        /\ Cardinality({t \in CreatedFor(g) : <<t, "greeting">> \in sentMessages}) <= 1

ManagerTerminal == {"rejected", "cancelled", "completed"}

\* C3: a Transaction of TransactionManager whose status is REJECTED, CANCELLED
\* or COMPLETED keeps that status under every later operation.
C3_ManagerTerminalStays ==
    [][\A t \in ManagerIds :
          manager_transactions[t].status \in ManagerTerminal
              => manager_transactions'[t].status = manager_transactions[t].status]_vars

\* the session get_session returns for transaction t
CurrentSession(mem, saved, t) == IF mem[t] # NoSession THEN mem[t] ELSE saved[t]

\* the normalized answer is a negative one at the session's confirmation step
NegativeAt(state, normalized) ==
    \/ /\ state \in {"waiting_bank_confirmation", "waiting_pdf_confirmation"}
       /\ normalized \in FLOW_NO
    \/ /\ state = "waiting_sbp_confirmation"
       /\ normalized \in FLOW_DENY /\ normalized \notin FLOW_CONFIRM

\* C5: a negative answer at a confirmation step leaves the session REJECTED; a
\* session that is REJECTED is still REJECTED after every later step; and no
\* payment details are produced for a REJECTED session.
C5_RejectedStays ==
    [][\A t \in ManagerIds :
          /\ \A message \in FlowTexts :
                (/\ NegativeAt(CurrentSession(sessions, saved_sessions, t).state,
                               NormalizeResponse(message))
                 /\ BuyerResponse(t, message))
                => CurrentSession(sessions', saved_sessions', t).state = "rejected"
          /\ CurrentSession(sessions, saved_sessions, t).state = "rejected"
                => /\ CurrentSession(sessions', saved_sessions', t).state = "rejected"
                   /\ sentMessages' \ sentMessages \subseteq {<<t, "rejection">>}
                          \cup {m \in sentMessages' : m[1] # t}]_vars

\* the receipt names the transaction's phone and an amount within tolerance
FieldsMatch(tx, d) ==
    /\ ComparePhones(tx.payment_phone, d.phone)
    /\ CompareAmounts(tx.amount, d.amount)

\* C9: AutoTrader.process_receipt changes the status of a transaction only to
\* approve one whose payment fields match the receipt; when no waiting
\* transaction matches, no status changes.
C9_ApprovesOnlyMatching ==
    [][\A d \in EmailReceipts, saved \in [1..MaxTm -> BOOLEAN] :
          AutoProcessReceipt(d, saved)
              => \A t \in ManagerIds :
                    manager_transactions'[t].status # manager_transactions[t].status
                        => /\ manager_transactions'[t].status = "approved"
                           /\ FieldsMatch(manager_transactions[t], d)]_vars

\* ================================================= claims on receipt validation
\* a required field is missing from what was read out of the receipt
Incomplete(d) ==
    \/ d.amount = NULL
    \/ d.phone = NoText /\ d.card_last4 = NoText
    \/ d.bank = ""

NextPoll ==
    \/ PollGate
    \/ Worker
    \/ ChatBot
    \/ ChatTick

SpecPoll == Init /\ [][NextPoll]_vars

\* row id has been in 'waiting_payment' since its greeting went out at
\* updated_at (the cycle that bound its order), has no receipt, and a later
\* cycle of the order monitor started more than the timeout after that
CheckedOverdue(id) ==
    /\ transactions[id].status = "waiting_payment"
    /\ transactions[id].chat_stage = "bank_confirm"
    /\ transactions[id].receipt_id = NULL
    /\ transactions[id].checked_at - transactions[id].updated_at > ReceiptTimeoutMinutes

\* C13: a transaction waiting for payment without a receipt for longer than the
\* timeout is moved to the fool pool by the next monitoring cycle of the chat
\* bot: after a cycle that started past the timeout no transaction is still
\* waiting for payment as before.
C13_OverdueMoved == \A id \in TxIds : ~CheckedOverdue(id)

WorkerGet == \E w \in Workers : ProcessQueueGet(w)
WorkerRun ==
    \E w \in Workers, outcome \in {"no_account", "ad_failed", "ad_created"} :
        ProcessQueueRun(w, outcome)

NextWorker ==
    \/ PollGateOneWallet
    \/ WorkerGet
    \/ WorkerRun
    \/ Tick

SpecWorker == Init /\ [][NextWorker]_vars

\* the number of times id waits in the queue or is held by a thread
Holders(id) ==
    Cardinality({i \in 1..Len(processing_queue) : processing_queue[i] = id})
        + Cardinality({w \in Workers : in_progress[w] = id})

\* C15: a transaction id is held by at most one thread of process_queue, and an
\* id that a thread is processing or that waits in the queue is not in the
\* queue a second time; a poll that sees its Gate transaction again adds nothing.
C15_OneWorkerPerId == \A id \in TxIds : Holders(id) <= 1

\* a thread holds a transaction whose Gate transaction a later poll listed again
C15_Witness ==
    \E w \in Workers :
        /\ in_progress[w] # NULL
        /\ observed[transactions[in_progress[w]].gate_transaction_id] = "again"
        /\ processing_queue # <<>>

\* C16: when process_transaction finds no available Bybit account, the
\* transaction keeps status 'pending' and is not marked as an error, so that a
\* later cycle processes it again.
C16_NoAccountKeepsPending ==
    [][\A id \in TxIds :
          (/\ processing_queue # <<>>
           /\ Head(processing_queue) = id
           /\ ProcessTransaction("no_account"))
          => transactions'[id].status = "pending"]_vars

\* =========================================================== ads specification
\* create_smart_ad called by the worker and on its own, against the buyers
CreateForTransaction ==
    \E findOk \in [Accounts -> BOOLEAN], listOk \in BOOLEAN,
       user_methods \in UserMethodLists, createOk \in BOOLEAN :
        CreateP2pAd(findOk, listOk, user_methods, createOk)
CreateAd ==
    \E a \in Accounts, listOk \in BOOLEAN, user_methods \in UserMethodLists,
       createOk \in BOOLEAN :
        CreateSmartAd(a, listOk, user_methods, createOk)
Responds == \E a \in Accounts, i \in 1..MaxAds : BuyerResponds(a, i)
Cancelled == \E a \in Accounts, i \in 1..MaxAds : OrderCancelled(a, i)
Completed == \E a \in Accounts, i \in 1..MaxAds : AdCompleted(a, i)

NextAds ==
    \/ CreateForTransaction
    \/ CreateAd
    \/ Responds
    \/ Cancelled
    \/ Completed

SpecAds == Init /\ [][NextAds]_vars

\* an account is full: two or more online ads, none with a response
Full(a) == Len(online_ads[a]) >= 2 /\ Len(AdsWithResponses(online_ads[a])) = 0

\* C17: find_available_bybit_account never returns an account that has two or
\* more active ads none of which has counterparty interest.
C17_NeverReturnsFull ==
    \A listOk \in [Accounts -> BOOLEAN] :
        LET bybit_account == FindAvailableBybitAccount(listOk)
        IN  bybit_account # NULL => ~Full(bybit_account)

\* C18: over any sequence of create_smart_ad calls an ad is added to an account
\* that has two or more active ads only if one of them has a response
\* (frozenQuantity > 0) at that time; with two active ads and no responses the
\* call creates nothing.
C18_AtMostTwoWithoutInterest ==
    [][\A a \in Accounts : Len(online_ads'[a]) > Len(online_ads[a]) => ~Full(a)]_vars

\* two online ads of one account, both without response, with one paymentType
SameMethodNoResponse(a) ==
    \E i, j \in 1..Len(online_ads[a]) :
        /\ i # j
        /\ online_ads[a][i].frozenQuantity = 0
        /\ online_ads[a][j].frozenQuantity = 0
        /\ online_ads[a][i].paymentType = online_ads[a][j].paymentType

\* C19: two active ads of an account that have no responses never have the
\* same payment method, and every call of create_smart_ad that adds an ad
\* gives it a payment type that no active ad without response uses.
C19_NoSharedMethod ==
    /\ [](\A a \in Accounts : ~SameMethodNoResponse(a))
    /\ [][\A a \in Accounts :
             Len(online_ads'[a]) > Len(online_ads[a])
                 => online_ads'[a][Len(online_ads'[a])].paymentType
                        \notin AnalyzeActiveAds(online_ads[a]).blocked]_vars

\* the session of t moves into state to in this step
Enters(t, to) ==
    /\ CurrentSession(sessions, saved_sessions, t).state # to
    /\ CurrentSession(sessions', saved_sessions', t).state = to

\* C20: a session reaches PAYMENT_DETAILS_SENT exactly when the buyer's
\* recognised answers are, in order, yes to the bank question, yes to the PDF
\* question and a confirmation of the SBP warning: each state of the chain is
\* entered only from the state before it by that answer, and a confirmation of
\* the SBP warning brings the session to PAYMENT_DETAILS_SENT.
C20_ThreeAnswersReachDetails ==
    [][\A t \in ManagerIds, message \in FlowTexts :
          BuyerResponse(t, message) =>
              LET state == CurrentSession(sessions, saved_sessions, t).state
                  normalized == NormalizeResponse(message)
              IN  /\ Enters(t, "waiting_pdf_confirmation")
                        => state = "waiting_bank_confirmation" /\ normalized \in FLOW_YES
                  /\ Enters(t, "waiting_sbp_confirmation")
                        => state = "waiting_pdf_confirmation" /\ normalized \in FLOW_YES
                  /\ Enters(t, "payment_details_sent")
                        <=> state = "waiting_sbp_confirmation" /\ normalized \in FLOW_CONFIRM]_vars

\* ======================================================= history specification
\* one negotiation whose buyer writes anything
MonitorFirst ==
    /\ manager_transactions = <<>>
    /\ \E listed \in SeqsUpTo(GateTxs, 1), messages \in SeqsUpTo(FlowTexts, 1) :
           MonitorTransactions(listed, messages)

NextHistory ==
    \/ MonitorFirst
    \/ Answer
    \/ CleanupOldSessions
    \/ WeekPasses

SpecHistory == Init /\ [][NextHistory]_vars

\* how often the session of t was asked its question again
Repeats(t) ==
    LET messages == CurrentSession(sessions, saved_sessions, t).messages
    IN  Cardinality({i \in 1..Len(messages) : messages[i] = <<"bot", "repeat">>})

\* C21: an unrecognised answer leaves the session in its state, and once the
\* question has been asked again MaxRetries times a further unrecognised answer
\* moves the session to REJECTED.
C21_RetriesBounded ==
    [][\A t \in ManagerIds, message \in FlowTexts :
          LET state == CurrentSession(sessions, saved_sessions, t).state
              after == CurrentSession(sessions', saved_sessions', t).state
          IN  (/\ state \in {"waiting_bank_confirmation", "waiting_pdf_confirmation",
                             "waiting_sbp_confirmation"}
               /\ ~Recognised(state, NormalizeResponse(message))
               /\ BuyerResponse(t, message))
              => /\ after \in {state, "rejected"}
                 /\ Repeats(t) >= MaxRetries => after = "rejected"]_vars

\* C22: the Transaction of a rejected session carries the buyer status 'fool'
\* and no payment details (method, phone).
C22_RejectedTaggedFool ==
    \A t \in ManagerIds :
        sessions[t].state = "rejected"
            => /\ manager_transactions[t].buyer_status = "fool"
               /\ manager_transactions[t].payment_method = ""
               /\ manager_transactions[t].payment_phone = NoText
               /\ ~manager_transactions[t].payment_details_sent

\* the buyer of t has confirmed the SBP warning: the step that chooses the
\* payment method and is to bring the session to PAYMENT_DETAILS_SENT has run
Confirmed(t) ==
    \/ sessions[t].state = "payment_details_sent"
    \/ \E i \in 1..Len(confirmedOrder) : confirmedOrder[i] = t

C24_HistoryOnlyGrows ==
    [][\A t \in 1..MaxTm :
          LET before == CurrentSession(sessions, saved_sessions, t).messages
              after == CurrentSession(sessions', saved_sessions', t).messages
          IN  /\ Len(before) <= Len(after)
              /\ \A i \in 1..Len(before) : after[i] = before[i]]_vars

\* ===================================================== release specification
\* the database pipeline with the release scheduler in its two steps
ReleaseSelect == \E order \in SeqsUpTo(TxIds, Len(transactions)) : ReleaseSchedulerSelect(order)
ReleaseCall == \E success \in BOOLEAN : ReleaseSchedulerCall(success)

NextRelease ==
    \/ PollGate
    \/ Worker
    \/ ChatBot
    \/ Mail
    \/ Ocr
    \/ MatchReceiptToTransaction
    \/ ReleaseSelect
    \/ ReleaseCall
    \/ Tick

SpecRelease == Init /\ [][NextRelease]_vars

\* C25: release_funds is called for a row only if its status is 'approved' and
\* at least the grace delay has passed since it was approved.
C25_ReleaseOnlyApprovedAfterGrace ==
    [][(/\ ready_transactions # <<>>
        /\ ready_transactions' = Tail(ready_transactions)
        /\ Head(ready_transactions)[2] # NULL)
          => LET row == transactions[Head(ready_transactions)[1]]
             IN  /\ row.status = "approved"
                 /\ now >= row.approved_at + GraceMinutes]_vars

\* ================================================ fair pipeline specification
\* The loops that MonitoringSystem.start and P2PChatBot.start run in threads of
\* their own take their turns for ever; ReceiptProcessor.process_receipt is
\* started by no loop (save_receipt calls TransactionProcessor.process_receipt,
\* whose body is empty), so nothing promises a run of it.
FairRelease ==
    /\ WF_vars(PollGate)
    /\ WF_vars(Worker)
    /\ WF_vars(ChatBot)
    /\ WF_vars(Mail)
    /\ WF_vars(ReleaseSelect)
    /\ WF_vars(ReleaseCall)
    /\ WF_vars(Tick)

SpecFairRelease == Init /\ [][NextRelease]_vars /\ FairRelease

\* the receipt r, saved and not yet read, is valid and names the amount and the
\* contact of row id, which waits for its payment
ReceiptFor(r, id) ==
    IF r \in ReceiptIds /\ id \in TxIds
    THEN /\ ~receipts[r].processed
         /\ ValidateReceipt(receipts[r].data)
         /\ id \in Candidates(transactions, receipts[r].data.amount)
         /\ ContactMatches(transactions[id].wallet, receipts[r].data)
    ELSE FALSE

\* row id exists and has the status
HasStatus(id, status) ==
    IF id \in TxIds THEN transactions[id].status = status ELSE FALSE

\* C26: a valid receipt saved from the mail that matches a transaction waiting
\* for payment leads to that transaction being approved, and then released.
C26_ReceiptLeadsToRelease ==
    \A r \in 1..MaxReceipts, id \in 1..MaxRows :
        ReceiptFor(r, id) ~> (HasStatus(id, "approved") /\ <>HasStatus(id, "released"))

\* ======================================================== loop specification
\* the five loops, each iteration with or without an exception at one statement
IterationRuns == \E l \in Loops : Iteration(l, "")
IterationRaises == \E l \in Loops : \E site \in Sites(l) : Iteration(l, site)

NextLoops ==
    \/ IterationRuns
    \/ IterationRaises

SpecLoops == Init /\ [][NextLoops]_vars

MonitorCycle == \E all \in Listings : MonitorAccounts(all)

NextAccounts ==
    \/ MonitorCycle
    \/ WeekPasses

SpecAccounts == Init /\ [][NextAccounts]_vars

\* account a lists a transaction that cannot be handled
FailsIn(a) == \E i \in 1..Len(all_transactions[a]) : Float(all_transactions[a][i].amount) = NULL

\* C28: within one discovery cycle a failure while handling a transaction of
\* one account does not keep the pending transactions of the other accounts
\* from being ingested: after the cycle every transaction listed for an
\* account without failure has a Transaction.
C28_OtherAccountsIngested ==
    \A a \in GateAccountIds :
        ~FailsIn(a) => \A i \in 1..Len(all_transactions[a]) :
                           \E t \in ManagerIds : createdFor[t] = all_transactions[a][i].id

\* ======================================================= login specification
Login == \E success \in [GateAccountIds -> BOOLEAN] : LoginAll(success)
Relogin == \E success \in [GateAccountIds -> BOOLEAN] : ReloginNeededAccounts(success)

NextLogin ==
    \/ Login
    \/ Relogin

SpecLogin == Init /\ [][NextLogin]_vars

\* the last login attempted for account a failed
LoginFailed(a) ==
    gate_accounts[a].failed_at # NULL /\ gate_accounts[a].failed_at = gate_accounts[a].attempted_at

\* C29: an account whose login failed carries the status 'error', and its
\* login is attempted again by a later re-login cycle (the process goes on:
\* login_all and relogin_needed_accounts catch per account).
C29_FailedLoginMarkedAndRetried ==
    \A a \in GateAccountIds :
        LoginFailed(a) => /\ gate_accounts[a].status = "error"
                          /\ a \in GetGateAccountsNeedingRelogin(gate_accounts, relogin_clock)

\* ===================================================== limiter specification
Calls == \E c \in Callers : Acquire(c)
TakesLock == \E c \in Callers : AcquireLocked(c)
Wakes == \E c \in Callers : AcquireAgain(c)
Answers == \E c \in Callers : RequestDone(c)

NextLimiter ==
    \/ Calls
    \/ TakesLock
    \/ Wakes
    \/ Answers
    \/ Second

\* the event loop runs every coroutine that can go on, asyncio.Lock wakes its
\* waiters in turn, and time passes
FairLimiter ==
    /\ \A c \in Callers : SF_vars(AcquireLocked(c))
    /\ \A c \in Callers : WF_vars(AcquireAgain(c))
    /\ \A c \in Callers : WF_vars(RequestDone(c))
    /\ WF_vars(Second)

SpecLimiter == Init /\ [][NextLimiter]_vars /\ FairLimiter

\* C30: a caller of acquire that finds the budget exhausted is suspended and,
\* once the window has moved on, acquire returns and the request proceeds:
\* every call of acquire leads to its request.
C30_AcquireReturns ==
    \A c \in Callers : (callers[c].pc = "acquire") ~> (callers[c].pc = "request")

\* ==================================================== throttle specification
\* one GateClient used by the threads of the executor
NextThrottle ==
    \/ \E th \in Threads : RateLimitRead(th)
    \/ \E th \in Threads : RateLimitSlept(th)
    \/ \E th \in Threads : MakeRequest(th)
    \/ \E th \in Threads : RequestReturns(th)
    \/ ClockTick

SpecThrottle == Init /\ [][NextThrottle]_vars

\* C31: two requests of one Gate account's client are never started less than
\* min_request_interval apart, whichever threads make them.
C31_RequestsSpaced ==
    [][\A th \in Threads :
          (threads[th].pc = "stamp" /\ threads'[th].pc = "request" /\ previous_start # NULL)
              => client_clock - previous_start >= min_request_interval]_vars

\* ===================================================== restart specification
\* The process stops and MonitoringSystem is constructed and started again:
\* TransactionProcessor.__init__ makes an empty processing_queue,
\* P2PChatBot.__init__ an empty monitored_ads, and every thread starts its
\* loop from the top; the tables of the database are what they were.
Restart ==
    /\ restarts < MaxRestarts
    /\ restarts' = restarts + 1
    /\ processing_queue' = <<>>
    /\ monitored_ads' = {}
    /\ matcher' = MatcherIdle
    /\ in_progress' = [w \in Workers |-> NULL]
    /\ ready_transactions' = <<>>
    /\ UNCHANGED <<transactions, receipts, now, addToQueueCalls, observed, chatLog,
                   assets_released>>
    /\ UNCHANGED <<memVars, online_ads, loops, all_transactions, gate_accounts,
                   relogin_clock, limiterVars, throttleVars, adminVars, lastVars>>

NextRestart ==
    \/ PollGate
    \/ WorkerGet
    \/ WorkerRun
    \/ ChatBot
    \/ Tick
    \/ Restart

\* every loop of the process takes its turns for ever; a restart may happen
FairRestart ==
    /\ WF_vars(PollGate)
    /\ WF_vars(WorkerGet)
    /\ WF_vars(WorkerRun)
    /\ WF_vars(ChatBot)
    /\ WF_vars(Tick)

SpecRestart == Init /\ [][NextRestart]_vars /\ FairRestart

\* row id is in progress after a restart
InProgressRestarted(id) ==
    IF id \in TxIds
    THEN /\ restarts > 0
         /\ transactions[id].status \in
                {"pending", "processing", "waiting_response", "waiting_payment"}
    ELSE FALSE

\* row id is worked on again: it waits in the queue or is held by the worker,
\* its ad is monitored, or it has left the states in progress
PickedUp(id) ==
    IF id \in TxIds
    THEN \/ \E i \in 1..Len(processing_queue) : processing_queue[i] = id
         \/ \E w \in Workers : in_progress[w] = id
         \/ \E ad \in monitored_ads : ad[2] = id
         \/ transactions[id].status \notin
                {"pending", "processing", "waiting_response", "waiting_payment"}
    ELSE FALSE

\* C32: after a restart every transaction that was in progress (pending,
\* processing, waiting for response or for payment) is picked up again: it is
\* processed, or its negotiation is monitored again.
C32_RestartResumes ==
    \A id \in 1..MaxRows : InProgressRestarted(id) ~> PickedUp(id)

\* ============================================ connector error specification
\* Gate discovery and the queue worker, where Bybit either creates the ad or
\* the connector fails with a network or rate limit error: create_smart_ad
\* raises or answers with a ret_code other than 0
WorkerCreates == ProcessTransaction("ad_created")
WorkerConnectorError == ProcessTransaction("connector_error")

NextConnector ==
    \/ PollGate
    \/ WorkerCreates
    \/ WorkerConnectorError
    \/ ChatBot
    \/ Tick

SpecConnector == Init /\ [][NextConnector]_vars

\* C33: when ad creation fails with a transient connector error the transaction
\* keeps the state it had and is not moved to 'error'; no other failure happens
\* under SpecConnector, so no row ever becomes 'error'.
C33_TransientErrorKeepsState ==
    [][\A id \in TxIds :
          transactions'[id].status = "error" => transactions[id].status = "error"]_vars

\* ================================================= admin server specification
\* the token the server was constructed with, and a token a client may guess
admin_token == "admin_token"
Tokens == {admin_token, "guess"}

\* the commands a client sends: auth, one that reads and two that write
Commands == {"auth", "list_transactions", "approve_transaction", "reject_transaction"}

\* WebSocketAdminServer.handle_client up to its loop over the messages
HandleClient(c) ==
    /\ ~admin_clients[c].connected
    /\ admin_clients' = [admin_clients EXCEPT ![c] =
                            [connected |-> TRUE, authenticated |-> FALSE,
                             inbox |-> {Msg("welcome", "", NULL)}]]
    /\ UNCHANGED <<broadcasts, memVars, all_transactions>>
    /\ UNCHANGED notMonitorVars

\* the connection closes: handle_client deletes the client
ClientDisconnects(c) ==
    /\ admin_clients[c].connected
    /\ admin_clients' = [admin_clients EXCEPT ![c] = NoClient]
    /\ UNCHANGED <<broadcasts, memVars, all_transactions>>
    /\ UNCHANGED notMonitorVars

\* handle_auth
HandleAuth(clients, c, token) ==
    IF token = admin_token
    THEN SendMessage([clients EXCEPT ![c].authenticated = TRUE], c,
                     Msg("auth_success", "", NULL))
    ELSE SendMessage(clients, c, Msg("auth_failed", "", NULL))

\* handle_builtin_command on st = [clients, txs], for the commands of Commands
HandleBuiltinCommand(st, c, command, t) ==
    CASE command = "list_transactions" ->
             [st EXCEPT !.clients = SendMessage(@, c, Msg("transactions_list", "", NULL))]
      [] command = "approve_transaction" ->
             [clients |-> SendMessage(st.clients, c, Msg("transaction_approved", "", t)),
              txs |-> UpdateTransactionStatusOn(st.txs, Uuid(t), "approved")]
      [] command = "reject_transaction" ->
             LET found == GetTransaction(st.txs, Uuid(t))
             IN  IF found = 0
                 THEN [st EXCEPT !.clients =
                          SendMessage(@, c, Msg("error", "Failed to reject transaction", t))]
                 ELSE [clients |-> SendMessage(st.clients, c, Msg("transaction_rejected", "", t)),
                       txs |-> [st.txs EXCEPT ![found].status = "rejected"]]
      [] OTHER ->
             [st EXCEPT !.clients = SendMessage(@, c, Msg("error", "Unknown command", NULL))]

\* handle_message without its test of client.authenticated
HandleMessageOpen(st, c, command, token, t) ==
    IF command = "auth" THEN [st EXCEPT !.clients = HandleAuth(@, c, token)]
    ELSE HandleBuiltinCommand(st, c, command, t)

\* WebSocketAdminServer.handle_message on st = [clients, txs]
HandleMessageOn(st, c, command, token, t) ==
    IF command = "auth" THEN [st EXCEPT !.clients = HandleAuth(@, c, token)]
    ELSE IF ~st.clients[c].authenticated
         THEN [st EXCEPT !.clients = SendMessage(@, c, Msg("error", "Not authenticated", NULL))]
         ELSE HandleBuiltinCommand(st, c, command, t)

\* a message of client c arrives and is handled
HandleMessage(c, command, token, t) ==
    /\ admin_clients[c].connected
    /\ LET st == HandleMessageOn([clients |-> admin_clients, txs |-> manager_transactions],
                                 c, command, token, t)
       IN  /\ admin_clients' = st.clients
           /\ manager_transactions' = st.txs
    /\ UNCHANGED <<broadcasts, createdFor, sessions, saved_sessions, sentMessages,
                   payment_alternator, confirmedOrder, week, all_transactions>>
    /\ UNCHANGED notMonitorVars

Connects == \E c \in AdminClientIds : HandleClient(c)
Disconnects == \E c \in AdminClientIds : ClientDisconnects(c)
Commanded ==
    \E c \in AdminClientIds, command \in Commands, token \in Tokens,
       t \in 1..MaxCommandTx :
        HandleMessage(c, command, token, t)

NextAdmin ==
    \/ MonitorFirst
    \/ Connects
    \/ Disconnects
    \/ Commanded

SpecAdmin == Init /\ [][NextAdmin]_vars

\* transaction t was the subject of a broadcast other than the one of its
\* discovery
BroadcastAbout(t) ==
    \E e \in broadcasts : e.tx = t /\ e.detail # "new_transaction"

\* C34: every transition of a transaction into a terminal or forced state
\* (rejected, fool pool, error, cancelled) is followed by a broadcast_event call:
\* when the handler that made the transition has returned, an event about the
\* transaction has been broadcast.
C34_TerminalBroadcast ==
    \A t \in ManagerIds :
        manager_transactions[t].status \in {"rejected", "fool_pool", "error", "cancelled"}
            => BroadcastAbout(t)

\* what the server sends to a connection that has not authenticated
Unprivileged ==
    {Msg("welcome", "", NULL), Msg("auth_failed", "", NULL),
     Msg("error", "Not authenticated", NULL)}

\* C40: a client that has not authenticated with the right token neither
\* observes nor changes state: all it is ever sent is the welcome, the refusal
\* of its token and the refusal of its commands (no answer of a command, no
\* event), and a step that handles a message of such a client leaves the
\* transactions as they are.
C40_UnauthenticatedIsolated ==
    /\ [](\A c \in AdminClientIds :
             ~admin_clients[c].authenticated => admin_clients[c].inbox \subseteq Unprivileged)
    /\ [][\A c \in AdminClientIds :
             (/\ ~admin_clients[c].authenticated
              /\ ~admin_clients'[c].authenticated
              /\ admin_clients'[c].inbox # admin_clients[c].inbox)
                 => manager_transactions' = manager_transactions]_vars

\* an unauthenticated client has been refused a command while another client
\* is authenticated and has been sent an event and the answer of a command
C40_Witness ==
    \E c, d \in AdminClientIds :
        /\ admin_clients[c].connected /\ ~admin_clients[c].authenticated
        /\ Msg("error", "Not authenticated", NULL) \in admin_clients[c].inbox
        /\ admin_clients[d].authenticated
        /\ \E e \in admin_clients[d].inbox : e.type = "event"
        /\ \E e \in admin_clients[d].inbox : e.type = "transaction_rejected"

\* C35: in the database pipeline a row has status 'waiting_payment' only when
\* the payment requisites have been sent to its buyer, and so a row is approved
\* by a receipt only after its requisites were sent.
C35_WaitingPaymentAfterRequisites ==
    \A id \in TxIds :
        transactions[id].status \in {"waiting_payment", "approved"}
            => transactions[id].requisites_at # NULL

\* C39: an order id is bound to at most one row, and a row that is bound to an
\* order keeps that order id, and its chat stage is not set back to 'greeting',
\* whatever other orders the account has open.
C39_OrderBindingStable ==
    /\ [](\A i, j \in TxIds :
             (i # j /\ transactions[i].bybit_order_id # NULL)
                 => transactions[i].bybit_order_id # transactions[j].bybit_order_id)
    /\ [][\A id \in TxIds :
             transactions[id].bybit_order_id # NULL
                 => /\ transactions'[id].bybit_order_id = transactions[id].bybit_order_id
                    /\ (transactions'[id].chat_stage = "greeting"
                            => transactions[id].chat_stage = "greeting")]_vars

\* ============================================= release-once specification
\* release_scheduler, one turn of the loop over ready_transactions, with the
\* database able to fail: release_funds calls release_assets, and when that
\* answered success runs the UPDATE, sends the final message and commits;
\* committed is whether the UPDATE and conn.commit() went through (an exception
\* of either is caught by release_funds, and the row stays as it was)
ReleaseSchedulerCallCommitting(success, committed) ==
    /\ ready_transactions # <<>>
    /\ LET tx_id == Head(ready_transactions)[1]
           order_id == Head(ready_transactions)[2]
           called == order_id # NULL /\ transactions[tx_id].bybit_account_id # NULL
       IN  /\ called /\ success => assets_released[order_id] < MaxReleases
           /\ assets_released' = IF called /\ success
                                 THEN [assets_released EXCEPT ![order_id] = @ + 1]
                                 ELSE assets_released
           /\ transactions' = IF called /\ committed
                              THEN ReleaseFundsOn(transactions, tx_id, success, now)
                              ELSE transactions
    /\ ready_transactions' = Tail(ready_transactions)
    /\ UNCHANGED <<receipts, processing_queue, monitored_ads, matcher, now,
                   addToQueueCalls, observed, chatLog>>
    /\ UNCHANGED <<memVars, in_progress, online_ads, loops, all_transactions, gate_accounts,
                   relogin_clock, limiterVars, throttleVars, adminVars, lastVars, restarts>>

ReleaseCommitting ==
    \E success \in BOOLEAN, committed \in BOOLEAN :
        ReleaseSchedulerCallCommitting(success, committed)

NextReleaseOnce ==
    \/ PollGate
    \/ Worker
    \/ ChatBot
    \/ Mail
    \/ Ocr
    \/ MatchReceiptToTransaction
    \/ ReleaseSelect
    \/ ReleaseCommitting
    \/ Tick

SpecReleaseOnce == Init /\ [][NextReleaseOnce]_vars

\* C36: the funds of an order are released at most once: release_assets does
\* not release an order a second time, whatever cycles the scheduler runs and
\* also when the status update after release_assets is not committed.
C36_ReleasedOnce == \A o \in OrderIds : assets_released[o] <= 1

\* ================================================= stored chat specification
\* everything but the database pipeline and the stored chat
notChatVars == <<memVars, in_progress, online_ads, ready_transactions, loops,
                 all_transactions, gate_accounts, relogin_clock, limiterVars, throttleVars,
                 processVars, adminVars, managerVars>>

\* the stages whose handler reads the buyer's latest message
ResponseStages == {"bank_confirm", "receipt_confirm", "kyc_confirm"}

\* the buyer writes a text message into the chat of the order
BuyerWrites(m) ==
    /\ Len(order_chat) < MaxChatLen
    /\ order_chat' = Append(order_chat, m)
    /\ UNCHANGED <<dbVars, fed_upto>>
    /\ UNCHANGED notChatVars

\* P2PChatBot._handle_order_chat for the order bound to row id, with the chat
\* get_chat_messages returns for it
HandleStoredChat(id, sendOk) ==
    /\ \E ad \in monitored_ads : ad[2] = id
    /\ transactions[id].bybit_order_id # NULL
    /\ LET st0 == [txs |-> transactions, mon |-> monitored_ads, log |-> chatLog]
           st1 == HandleOrderChat(st0, id, order_chat, sendOk, now)
       IN  /\ transactions' = st1.txs
           /\ monitored_ads' = st1.mon
           /\ chatLog' = st1.log
    /\ fed_upto' = IF /\ transactions[id].chat_stage \in ResponseStages
                      /\ LatestUserIndex(order_chat) # 0
                   THEN LatestUserIndex(order_chat) ELSE fed_upto
    /\ UNCHANGED <<receipts, processing_queue, matcher, now, addToQueueCalls, observed,
                   order_chat>>
    /\ UNCHANGED notChatVars

\* the account has the one order, which the monitor binds to the row
ChatBotOneOrder ==
    \E ad \in monitored_ads, sendOk \in BOOLEAN :
        CheckAdOrders(ad, <<1>>, <<>>, [i \in {1} |-> sendOk])
Writes == \E t \in Texts : BuyerWrites([msgType |-> 1, message |-> t, contentType |-> "str"])
StoredChat == \E id \in TxIds, sendOk \in BOOLEAN : HandleStoredChat(id, sendOk)

NextStoredChat ==
    \/ PollGate
    \/ Worker
    \/ ChatBotOneOrder
    \/ Writes
    \/ StoredChat

SpecStoredChat == Init /\ [][NextStoredChat]_vars

\* C37: each buyer message is fed to the negotiation at most once: a step that
\* takes a row out of a stage that waits for an answer (to the next stage or to
\* the fool pool) is made on a message that no response handler has read before.
C37_MessageFedOnce ==
    [][\A id \in TxIds :
          (/\ transactions[id].chat_stage \in ResponseStages
           /\ \/ transactions'[id].chat_stage # transactions[id].chat_stage
              \/ transactions'[id].status # transactions[id].status)
              => LatestUserIndex(order_chat) > fed_upto]_vars

\* ================================================ chat manager specification
notManagerVars == <<dbVars, memVars, in_progress, online_ads, ready_transactions, loops,
                    all_transactions, gate_accounts, relogin_clock, limiterVars,
                    throttleVars, processVars, adminVars, chatVars>>

\* ChatManager.send_payment_details up to its first await, entered by task k
\* for order o: the test of orders_with_shown_payment, then get_order_details
SendPaymentDetailsEnter(tasks, k, o) ==
    IF o \in orders_with_shown_payment THEN tasks
    ELSE [tasks EXCEPT ![k] = [pc |-> "details", order |-> o]]

\* _monitor_order_chat hands a new message of the buyer of order o to
\* _process_buyer_message; agrees is whether the text holds an agreement keyword
ProcessBuyerMessage(o, agrees) ==
    /\ chat_tasks[o].pc = "idle"
    /\ IF ~active_chats[o].agreed /\ agrees
       THEN /\ active_chats' = [active_chats EXCEPT ![o].agreed = TRUE]
            /\ chat_tasks' = SendPaymentDetailsEnter(chat_tasks, o, o)
       ELSE UNCHANGED <<active_chats, chat_tasks>>
    /\ UNCHANGED <<orders_with_shown_payment, details_messages>>
    /\ UNCHANGED notManagerVars

\* TraderSystem.monitor_active_orders reaching order o in its loop:
\* check_buyer_agreement, then send_payment_details
MonitorActiveOrders(o) ==
    /\ chat_tasks[OrdersTask].pc = "idle"
    /\ active_chats[o].agreed
    /\ chat_tasks' = SendPaymentDetailsEnter(chat_tasks, OrdersTask, o)
    /\ UNCHANGED <<active_chats, orders_with_shown_payment, details_messages>>
    /\ UNCHANGED notManagerVars

\* get_order_details returns to task k: without details send_payment_details
\* returns False, with them it formats the message and awaits send_chat_message
GetOrderDetailsReturns(k, found) ==
    /\ chat_tasks[k].pc = "details"
    /\ chat_tasks' = [chat_tasks EXCEPT ![k] =
                         IF found THEN [@ EXCEPT !.pc = "sending"]
                         ELSE [pc |-> "idle", order |-> NULL]]
    /\ UNCHANGED <<active_chats, orders_with_shown_payment, details_messages>>
    /\ UNCHANGED notManagerVars

\* send_chat_message returns to task k: on success the message is in the chat
\* and the order is added to orders_with_shown_payment
SendChatMessageReturns(k, success) ==
    /\ chat_tasks[k].pc = "sending"
    /\ LET o == chat_tasks[k].order
       IN  /\ success => details_messages[o] < MaxDetails
           /\ details_messages' = IF success THEN [details_messages EXCEPT ![o] = @ + 1]
                                  ELSE details_messages
           /\ orders_with_shown_payment' = IF success THEN orders_with_shown_payment \cup {o}
                                           ELSE orders_with_shown_payment
    /\ chat_tasks' = [chat_tasks EXCEPT ![k] = [pc |-> "idle", order |-> NULL]]
    /\ UNCHANGED active_chats
    /\ UNCHANGED notManagerVars

BuyerMessage == \E o \in ChatOrderIds, agrees \in BOOLEAN : ProcessBuyerMessage(o, agrees)
OrdersMonitored == \E o \in ChatOrderIds : MonitorActiveOrders(o)
DetailsReturn == \E k \in ChatTasks, found \in BOOLEAN : GetOrderDetailsReturns(k, found)
SendReturns == \E k \in ChatTasks, success \in BOOLEAN : SendChatMessageReturns(k, success)

NextChatManager ==
    \/ BuyerMessage
    \/ OrdersMonitored
    \/ DetailsReturn
    \/ SendReturns

SpecChatManager == Init /\ [][NextChatManager]_vars

\* C38: for a given order ChatManager sends the payment details message at most
\* once, however the steps of _process_buyer_message and of
\* monitor_active_orders interleave.
C38_DetailsSentOnce == \A o \in ChatOrderIds : details_messages[o] <= 1

====
